---- MODULE Spec2Model ----
(***************************************************************************)
(* A model of pandas/io/pytables.py: the HDFStore facade (open, close,    *)
(* put, append, select, remove), the fixed-format storers (SeriesFixed,   *)
(* FrameFixed), the appendable tables (create_axes, write_data, delete)   *)
(* and the Selection engine.                                               *)
(*                                                                         *)
(* Data abstraction.  Every cell is an integer.  NA (-1) is the missing   *)
(* value (NaN / NaT / code -1 of a categorical).  A string is modelled by *)
(* its length; the only string of length NanLen is the text "nan", which  *)
(* is also the default nan_rep.  Row labels are integers, column labels,  *)
(* names and dtypes are strings.                                          *)
(***************************************************************************)
EXTENDS Integers, Sequences, FiniteSets, TLC

VARIABLES handle, mode, file, result, last, hist, it, own

vars == <<handle, mode, file, result, last, hist, it, own>>

(***************************************************************************)
(* Bounds of the model.                                                    *)
(***************************************************************************)
MaxRows == 3          \* rows of one in-memory object
MaxAppends == 2       \* table writes recorded per key
MaxChunk == 2         \* largest chunksize argument tried
MaxDelRows == 6       \* rows of the table that remove() is tried on
ShortLen == 5         \* longest string of the first write of a string column
LongLen == 10         \* longest string of the batch appended to it

(***************************************************************************)
(* Constants of the program.                                               *)
(***************************************************************************)
NA == -1              \* missing value; also the code of a missing category
NanLen == 3           \* len("nan"), the default nan_rep
DefaultChunk == 100000
TableNdim == 2        \* ndim of the frame and the series table storers
IterChunk == 100000

NoName == "<None>"    \* Python None as a name / attribute value
ValuesName == "values"
NoAttr == "<unset>"   \* an attribute that was never written
NoShape == <<-1>>     \* a node without a shape attribute
NoList == <<-1>>      \* None where a list may be passed
NoInt == -1           \* None where an int may be passed

Keys == {"df"}

\* ---------------------------------------------------------------- helpers
Range(s) == {s[i] : i \in DOMAIN s}

Max2(a, b) == IF a > b THEN a ELSE b

Min2(a, b) == IF a < b THEN a ELSE b

RECURSIVE SeqMax(_)
SeqMax(s) == IF s = <<>> THEN 0 ELSE Max2(Head(s), SeqMax(Tail(s)))

RECURSIVE Flatten(_)
Flatten(ss) == IF ss = <<>> THEN <<>> ELSE Head(ss) \o Flatten(Tail(ss))

IndexOf(s, v) == IF \E i \in DOMAIN s : s[i] = v
                 THEN CHOOSE i \in DOMAIN s : s[i] = v /\ \A j \in 1..(i-1) : s[j] # v
                 ELSE 0

SubSeqSafe(s, a, b) == IF a > b THEN <<>> ELSE SubSeq(s, Max2(a, 1), Min2(b, Len(s)))

\* s[start:stop] of Python for 0 <= start, stop (0-based, stop exclusive)
Slice(s, start, stop) == SubSeqSafe(s, start + 1, Min2(stop, Len(s)))

IsStr(dtype) == dtype = "object"

CanHoldNA(dtype) == dtype \notin {"int64", "bool"}

\* ---------------------------------------------------------------- objects
(***************************************************************************)
(* An in-memory pandas object.                                             *)
(*   typ     "series" | "frame"                                            *)
(*   name    the Series name (NoName for a frame)                          *)
(*   idxname the name of the row index                                     *)
(*   idx     the row labels                                                *)
(*   cols    one [label, dtype, cats] per column; a Series has one column  *)
(*           whose label is not used                                       *)
(*   data    one row per row label, one cell per column                    *)
(***************************************************************************)
Col(label, dtype, cats) == [label |-> label, dtype |-> dtype, cats |-> cats]

MkSeries(name, idxname, idx, dtype, cats, cells) ==
    [typ |-> "series", name |-> name, idxname |-> idxname, idx |-> idx,
     cols |-> <<Col("", dtype, cats)>>,
     data |-> [i \in DOMAIN cells |-> <<cells[i]>>]]

MkFrame(idxname, idx, cols, data) ==
    [typ |-> "frame", name |-> NoName, idxname |-> idxname, idx |-> idx,
     cols |-> cols, data |-> data]

NoObj == [typ |-> "none", name |-> NoName, idxname |-> NoName, idx |-> <<>>,
          cols |-> <<>>, data |-> <<>>]

NRows(x) == Len(x.idx)

Labels(x) == [i \in DOMAIN x.cols |-> x.cols[i].label]

ColumnCells(x, j) == [i \in DOMAIN x.data |-> x.data[i][j]]

\* DataFrame.empty / Series.empty: some axis has length zero
IsEmpty(x) == NRows(x) = 0 \/ Len(x.cols) = 0

\* the value compared with the missing-value sentinel read as missing: a string
\* equal to the nan_rep text counts as missing
AsMissing(x) ==
    [x EXCEPT !.data = [i \in DOMAIN x.data |->
        [j \in DOMAIN x.data[i] |->
            IF IsStr(x.cols[j].dtype) /\ x.data[i][j] = NanLen THEN NA
            ELSE x.data[i][j]]]]

\* ------------------------------------------------------------ file nodes
NoNode == [kind |-> "absent"]

\* a child array that was never created under its group
NoArr == [node |-> "missing"]

\* result of an operation on the file: the new file content, the exception
\* raised ("none" when the call returns), the returned object, the returned
\* integer and the remove_rows(start, stop) calls made on the table
Outcome(f, err, ret, n) ==
    [file |-> f, err |-> err, ret |-> ret, n |-> n, calls |-> <<>>]

\* ------------------------------------------------- GenericFixed (arrays)
\* an in-memory ndarray: its dtype, its shape and its cells; a 1-d array holds
\* a sequence of cells, a 2-d block holds one sequence of cells per item
Arr(dtype, shape, data) == [dtype |-> dtype, shape |-> shape, data |-> data]

_is_empty_array(shape) == \E i \in DOMAIN shape : shape[i] = 0

\* a placeholder that records the dtype of the placeholder instead of the
\* dtype of the value: the variant of write_array_empty that loses the dtype
write_array_empty_untyped(value) ==
    [node |-> "array", atom |-> "float64", value_type |-> "float64",
     shape |-> value.shape,
     data |-> IF Len(value.shape) = 1 THEN <<0>> ELSE <<<<0>>>>]

\* np.empty((1,) * ndim): a float64 placeholder holding one garbage cell
write_array_empty(value) ==
    [node |-> "array", atom |-> "float64", value_type |-> value.dtype,
     shape |-> value.shape,
     data |-> IF Len(value.shape) = 1 THEN <<0>> ELSE <<<<0>>>>]

\* the child node that write_array creates (no compression filters are set);
\* the categorical case raises and is handled by the callers
write_array(value) ==
    IF value.dtype = "object"
    THEN [node |-> "vlarray", atom |-> "object", value_type |-> NoAttr,
          shape |-> NoShape, data |-> value.data]
    ELSE IF _is_empty_array(value.shape) THEN write_array_empty(value)
    ELSE IF value.dtype = "datetime64[ns]"
    THEN [node |-> "array", atom |-> "int64", value_type |-> "datetime64",
          shape |-> NoShape, data |-> value.data]
    ELSE IF value.dtype = "timedelta64[ns]"
    THEN [node |-> "array", atom |-> "int64", value_type |-> "timedelta64",
          shape |-> NoShape, data |-> value.data]
    ELSE [node |-> "array", atom |-> value.dtype, value_type |-> NoAttr,
          shape |-> NoShape, data |-> value.data]

\* np.empty(shape, dtype) for a shape with a zero-length axis
EmptyOfShape(shape) ==
    IF Len(shape) = 1 THEN <<>>
    ELSE [i \in 1..shape[1] |-> <<>>]

\* [dtype, data] read back from a child node
read_array(node) ==
    IF node.node = "vlarray" THEN [dtype |-> "object", data |-> node.data]
    ELSE LET ret == IF node.shape # NoShape
                    THEN [dtype |-> node.value_type, data |-> EmptyOfShape(node.shape)]
                    ELSE [dtype |-> node.atom, data |-> node.data]
         IN  IF node.value_type = "datetime64"
             THEN [ret EXCEPT !.dtype = "datetime64[ns]"]
             ELSE IF node.value_type = "timedelta64"
             THEN [ret EXCEPT !.dtype = "timedelta64[ns]"]
             ELSE ret

\* an integer row index: _convert_index gives kind "integer", the labels go
\* through write_array and the name is kept as a node attribute
write_index(idx, idxname) ==
    [kind |-> "integer", name |-> idxname,
     arr |-> write_array(Arr("int64", <<Len(idx)>>, idx))]

read_index_node(node) ==
    [name |-> node.name,
     idx |-> IF node.arr.shape # NoShape /\ _is_empty_array(node.arr.shape)
             THEN <<>>
             ELSE node.arr.data]

\* ------------------------------------------------------------ SeriesFixed
\* the group left by SeriesFixed.write; a categorical raises in write_array
\* after the index was written and before the name attribute is set
SeriesFixed_write(x) ==
    LET c == x.cols[1]
        isCat == c.dtype = "category"
    IN  [node |-> [kind |-> "fixed", pandas_type |-> "series",
                   index |-> write_index(x.idx, x.idxname),
                   values |-> IF isCat THEN NoArr
                              ELSE write_array(Arr(c.dtype, <<NRows(x)>>, ColumnCells(x, 1))),
                   name |-> IF isCat THEN NoAttr ELSE x.name],
         err |-> IF isCat THEN "NotImplementedError" ELSE "none"]

SeriesFixed_read(node) ==
    IF node.values = NoArr THEN [err |-> "NoSuchNodeError", ret |-> NoObj]
    ELSE LET index == read_index_node(node.index)
             values == read_array(node.values)
         IN  [err |-> "none",
              ret |-> MkSeries(node.name, index.name, index.idx, values.dtype,
                               <<>>, values.data)]

\* ----------------------------------------------------------------- blocks
\* obj._data.blocks of a consolidated frame: one block per dtype holding the
\* columns of that dtype in column order, then one block per categorical
\* column (categoricals are never consolidated)
BlockOrder == <<"float64", "complex128", "int64", "datetime64[ns]",
                "timedelta64[ns]", "bool", "object">>

Positions(n) == [i \in 1..n |-> i]

LocsOf(cols, d) == SelectSeq(Positions(Len(cols)), LAMBDA j : cols[j].dtype = d)

Blk(cols, locs) == [dtype |-> cols[locs[1]].dtype, locs |-> locs,
                    items |-> [k \in DOMAIN locs |-> cols[locs[k]].label]]

FormBlocks(cols) ==
    LET present == SelectSeq(BlockOrder, LAMBDA d : LocsOf(cols, d) # <<>>)
        cats == LocsOf(cols, "category")
    IN  [k \in DOMAIN present |-> Blk(cols, LocsOf(cols, present[k]))]
        \o [k \in DOMAIN cats |-> Blk(cols, <<cats[k]>>)]

\* blk.values: one sequence of cells per item of the block
BlkValues(x, blk) ==
    Arr(blk.dtype, <<Len(blk.locs), NRows(x)>>,
        [k \in DOMAIN blk.locs |-> ColumnCells(x, blk.locs[k])])

\* ------------------------------------------------------ BlockManagerFixed
\* the group left by FrameFixed.write: both axes, the nblocks attribute, then
\* block by block the values followed by the items; a categorical block
\* raises in write_array, leaving the blocks from there on unwritten
BlockManagerFixed_write(x) ==
    LET blocks == FormBlocks(x.cols)
        bad == {k \in DOMAIN blocks : blocks[k].dtype = "category"}
        firstBad == IF bad = {} THEN Len(blocks) + 1
                    ELSE CHOOSE k \in bad : \A m \in bad : k <= m
    IN  [node |-> [kind |-> "fixed", pandas_type |-> "frame",
                   axis0 |-> Labels(x),
                   axis1 |-> write_index(x.idx, x.idxname),
                   nblocks |-> Len(blocks),
                   blocks |-> [k \in 1..(firstBad - 1) |->
                                  [items |-> blocks[k].items,
                                   values |-> write_array(BlkValues(x, blocks[k]))]]],
         err |-> IF bad = {} THEN "none" ELSE "NotImplementedError"]

BlockManagerFixed_read(node) ==
    IF Len(node.blocks) < node.nblocks
    THEN [err |-> "AttributeError", ret |-> NoObj]
    ELSE LET index == read_index_node(node.axis1)
             items == node.axis0
             vals == [k \in DOMAIN node.blocks |-> read_array(node.blocks[k].values)]
             blkOf(j) == CHOOSE k \in DOMAIN node.blocks :
                             items[j] \in Range(node.blocks[k].items)
             cells(j) == vals[blkOf(j)].data[IndexOf(node.blocks[blkOf(j)].items, items[j])]
         IN  [err |-> "none",
              ret |-> MkFrame(index.name, index.idx,
                        [j \in DOMAIN items |-> Col(items[j], vals[blkOf(j)].dtype, <<>>)],
                        [i \in DOMAIN index.idx |->
                            [j \in DOMAIN items |-> cells(j)[i]]])]

\* ------------------------------------------------------- table: arguments
NoCols == <<"<None>">>     \* data_columns=None
AllCols == <<"<True>">>    \* data_columns=True

\* min_itemsize: None, an int (key IntKey) or a dict with one key
IntKey == "<int>"

NoMin == [key |-> NoName, size |-> 0]

\* labels in the order Index.difference sorts them
LabelOrder == <<"A", "B", "C", "s", ValuesName>>

SortLabels(S) == SelectSeq(LabelOrder, LAMBDA l : l \in S)

BlockNames == <<"values_block_0", "values_block_1", "values_block_2", "values_block_3">>

\* the frame restricted to the given labels, in their order
TakeCols(x, labels) ==
    LET loc(k) == IndexOf(Labels(x), labels[k])
    IN  [x EXCEPT !.cols = [k \in DOMAIN labels |-> x.cols[loc(k)]],
                  !.data = [i \in DOMAIN x.data |->
                               [k \in DOMAIN labels |-> x.data[i][loc(k)]]]]

\* the blocks of a frame together with their cells
FrameBlocks(x) ==
    LET blocks == FormBlocks(x.cols)
    IN  [k \in DOMAIN blocks |->
            [dtype |-> blocks[k].dtype, items |-> blocks[k].items,
             cats |-> x.cols[blocks[k].locs[1]].cats,
             data |-> BlkValues(x, blocks[k]).data]]

\* AppendableSeriesTable.write: a Series is written as a one-column frame
\* whose label is the Series name, or "values" when the name is falsy
SeriesToFrame(x) ==
    LET name == IF x.name \in {NoName, ""} THEN ValuesName ELSE x.name
    IN  [x EXCEPT !.typ = "frame", !.name = NoName,
                  !.cols = <<[x.cols[1] EXCEPT !.label = name]>>]

\* ---------------------------------------------------------------- IndexCol
\* update_info for the index_name field; old is NoAttr when the key is absent
update_info(old, value) ==
    IF old # NoAttr /\ value # NoName /\ old # value THEN NoName
    ELSE IF value # NoName \/ old \notin {NoAttr, NoName} THEN value
    ELSE old

\* validate_col of an existing column against a wanted itemsize: the width of
\* the stored column for a string column, None (NoInt) for any other kind
validate_col(col, itemsize) ==
    IF col.kind = "string"
    THEN [err |-> IF col.itemsize < itemsize THEN "ValueError" ELSE "none",
          ret |-> col.itemsize]
    ELSE [err |-> "none", ret |-> NoInt]

\* ----------------------------------------------------------------- DataCol
NoCol == [cname |-> NoName]

\* a lookup that ignores min_itemsize: the variant of MinFor under which a
\* column is never preset wider than its data
MinForNone(mi, name) == 0

\* min_itemsize.get(name) or min_itemsize.get("values") or 0
MinFor(mi, name) ==
    IF mi.key = NoName THEN 0
    ELSE IF mi.key \in {IntKey, name, ValuesName} THEN mi.size
    ELSE 0

\* a string cell as stored in a column of the given width: missing values
\* become nan_rep, longer strings are cut by astype("|S<width>")
StoreStr(cell, itemsize) == Min2(IF cell = NA THEN NanLen ELSE cell, itemsize)

set_atom_string(col, block, existing_col, mi) ==
    LET filled == [k \in DOMAIN block.data |->
                      [i \in DOMAIN block.data[k] |->
                          IF block.data[k][i] = NA THEN NanLen ELSE block.data[k][i]]]
        wanted == Max2(MinFor(mi, col.cname), SeqMax(Flatten(filled)))
        eci == IF existing_col = NoCol THEN [err |-> "none", ret |-> 0]
               ELSE validate_col(existing_col, wanted)
        itemsize == IF eci.ret > wanted THEN eci.ret ELSE wanted
    IN  IF eci.err # "none" THEN [col EXCEPT !.err = eci.err]
        ELSE IF eci.ret = NoInt THEN [col EXCEPT !.err = "TypeError"]
        ELSE [col EXCEPT !.kind = "string", !.dtype = "bytes",
                         !.itemsize = itemsize,
                         !.data = [k \in DOMAIN filled |->
                                     [i \in DOMAIN filled[k] |->
                                         StoreStr(filled[k][i], itemsize)]]]

\* the column built by create_for_block and set_atom for block number i
\* (0-based) at position pos
set_atom(i, pos, block, isdc, existing_col, mi) ==
    LET cname == IF isdc THEN block.items[1] ELSE BlockNames[i + 1]
        col == [cname |-> cname, values |-> block.items, kind |-> block.dtype,
                dtype |-> block.dtype, itemsize |-> 0, meta |-> NoName,
                metadata |-> NoList, pos |-> pos, isdc |-> isdc,
                data |-> block.data, err |-> "none"]
    IN  CASE block.dtype = "category" ->
                [col EXCEPT !.kind = "integer", !.dtype = "int8",
                            !.meta = "category", !.metadata = block.cats]
          [] block.dtype = "datetime64[ns]" ->
                [col EXCEPT !.kind = "datetime64", !.dtype = "datetime64"]
          [] block.dtype = "timedelta64[ns]" ->
                [col EXCEPT !.kind = "timedelta64", !.dtype = "timedelta64"]
          [] block.dtype = "object" -> set_atom_string(col, block, existing_col, mi)
          [] OTHER -> col

\* DataCol.__eq__: name, cname, dtype (the width is part of a bytes dtype), pos
DataColEq(a, b) ==
    /\ a.cname = b.cname
    /\ a.dtype = b.dtype
    /\ a.itemsize = b.itemsize
    /\ a.pos = b.pos

\* ------------------------------------------------------------------- Table
FirstErr(errs) ==
    IF \A i \in DOMAIN errs : errs[i] = "none" THEN "none"
    ELSE errs[CHOOSE i \in DOMAIN errs :
                 errs[i] # "none" /\ \A j \in 1..(i-1) : errs[j] = "none"]

\* the data columns spec: the passed (or persisted) data_columns, extended by
\* the key of a min_itemsize dict, limited to the labels of the axis
validate_data_columns(data_columns, mi, axis_labels) ==
    LET given == IF data_columns = AllCols THEN axis_labels
                 ELSE IF data_columns = NoCols THEN <<>>
                 ELSE data_columns
        extra == IF mi.key \notin {NoName, IntKey, ValuesName} /\ mi.key \notin Range(given)
                 THEN <<mi.key>> ELSE <<>>
    IN  SelectSeq(given \o extra, LAMBDA c : c \in Range(axis_labels))

\* a min_itemsize dict key must be "values", the index or a data column
validate_min_itemsize(mi, data_columns) ==
    IF mi.key \in {NoName, IntKey, ValuesName, "index"} \/ mi.key \in Range(data_columns)
    THEN "none" ELSE "ValueError"

\* Table.validate against the existing table: the non-index axes and the
\* values axes must compare equal
validate(non_index_axes, cols, other) ==
    IF non_index_axes # other.non_index_axes THEN "ValueError"
    ELSE IF Len(cols) # Len(other.cols) THEN "Exception"
    ELSE IF \E i \in DOMAIN cols : ~DataColEq(cols[i], other.cols[i]) THEN "ValueError"
    ELSE "none"

\* an axis that is never reordered: the labels of the frame as they come
append_axis_as_given(x, node) == Labels(x)

\* the axis the frame is indexed on: the order of the existing table's axis
\* when the frame carries the same labels in another order
append_axis(x, node) ==
    IF node.kind = "table" /\ Labels(x) # node.non_index_axes
                           /\ Len(x.cols) = Len(node.non_index_axes)
                           /\ Range(Labels(x)) = Range(node.non_index_axes)
    THEN node.non_index_axes ELSE Labels(x)

\* the blocks of the reindexed frame: with data columns, the block manager of
\* the remaining labels followed by one single-label block per data column
data_blocks(obj, axis, data_columns) ==
    IF data_columns # <<>>
    THEN FrameBlocks(TakeCols(obj, SortLabels(Range(axis) \ Range(data_columns))))
         \o [k \in DOMAIN data_columns |->
                FrameBlocks(TakeCols(obj, <<data_columns[k]>>))[1]]
    ELSE FrameBlocks(obj)

\* reorder the blocks in the same order as the existing table: every values
\* axis of the table must find the block that holds exactly its labels
match_blocks(blocks0, node) ==
    LET exists == node.kind = "table"
        matched(k) == {b \in DOMAIN blocks0 : blocks0[b].items = node.cols[k].values}
        matchErr == exists /\ \E k \in DOMAIN node.cols : matched(k) = {}
    IN  [err |-> IF matchErr THEN "ValueError" ELSE "none",
         blocks |-> IF exists /\ ~matchErr
                    THEN [k \in DOMAIN node.cols |->
                             blocks0[CHOOSE b \in matched(k) : TRUE]]
                    ELSE blocks0]

\* the values axes: one column per block, set against the existing column at
\* the same position when validating
values_axes(blocks, node, use_existing, mi, data_columns) ==
    [k \in DOMAIN blocks |->
        set_atom(k - 1, k, blocks[k],
                 Len(blocks[k].items) = 1 /\ blocks[k].items[1] \in Range(data_columns),
                 IF use_existing /\ k \in DOMAIN node.cols THEN node.cols[k] ELSE NoCol,
                 mi)]

\* the data columns create_axes records: the names of the data-column axes
new_data_columns(cols) ==
    [k \in DOMAIN SelectSeq(cols, LAMBDA c : c.isdc) |->
        SelectSeq(cols, LAMBDA c : c.isdc)[k].cname]

\* the outcome of create_axes once the values axes are built: the first error
\* among the block matching, the atoms, validate_min_itemsize and validate
axes_result(x, node, validate_, mi, axis, cols, matchErr) ==
    [err |-> IF matchErr # "none" THEN matchErr
             ELSE FirstErr([k \in DOMAIN cols |-> cols[k].err]
                           \o <<validate_min_itemsize(mi, new_data_columns(cols))>>
                           \o <<IF node.kind = "table" /\ validate_
                                THEN validate(axis, cols, node)
                                ELSE "none">>),
     cols |-> cols, non_index_axes |-> axis,
     data_columns |-> new_data_columns(cols),
     index_name |-> update_info(IF node.kind = "table" THEN node.info.index_name
                                ELSE NoAttr,
                                x.idxname),
     index |-> x.idx]

\* create_axes from the matched blocks on
axes_of_blocks(x, node, validate_, mi, axis, data_columns, m) ==
    axes_result(x, node, validate_, mi, axis,
                values_axes(m.blocks, node, node.kind = "table" /\ validate_, mi,
                            data_columns),
                m.err)

\* create_axes from the axis and the data columns on
axes_of_axis(x, node, validate_, mi, axis, data_columns) ==
    axes_of_blocks(x, node, validate_, mi, axis, data_columns,
                   match_blocks(data_blocks(TakeCols(x, axis), axis, data_columns),
                                node))

\* create_axes for a frame x against the node stored under the key (a table
\* when appending to an existing one); validate is the append flag
create_axes(x, node, validate_, mi, data_columns_arg) ==
    axes_of_axis(x, node, validate_, mi, append_axis(x, node),
                 validate_data_columns(IF node.kind = "table" THEN node.data_columns
                                       ELSE data_columns_arg,
                                       mi, append_axis(x, node)))

\* --------------------------------------------------------- AppendableTable
\* what the file keeps of a values axis: the description entry and the
\* <cname>_kind, <cname>_dtype and <cname>_meta attributes
StoredCol(c) ==
    [cname |-> c.cname, values |-> c.values, kind |-> c.kind, dtype |-> c.dtype,
     itemsize |-> c.itemsize, meta |-> c.meta, pos |-> c.pos, isdc |-> c.isdc]

\* Table.write_metadata puts the categories as a table-format Series under
\* meta/<cname>: the put removes the node stored there, and stores nothing
\* when the Series is empty
write_metadata(metadata) == IF metadata = <<>> THEN NoList ELSE metadata

\* IndexCol.validate_metadata: cur is what read_metadata returns
validate_metadata(col, cur) ==
    IF col.meta = "category" /\ col.metadata # NoList /\ cur # NoList
       /\ col.metadata # cur
    THEN "ValueError" ELSE "none"

\* DataCol.validate_attr against the attributes of the stored column
validate_attr(col, stored) ==
    IF stored.values # col.values \/ stored.dtype # col.dtype
       \/ stored.itemsize # col.itemsize
    THEN "ValueError" ELSE "none"

\* validate_and_set over the values axes from axis k on: the first failing
\* axis stops the loop, the axes before it have written their metadata
RECURSIVE validate_and_set(_, _, _, _, _)
validate_and_set(cols, stored, metas, append, k) ==
    IF k > Len(cols) THEN [err |-> "none", metas |-> metas]
    ELSE LET e1 == IF append THEN validate_attr(cols[k], stored[k]) ELSE "none"
             e2 == validate_metadata(cols[k], metas[k])
         IN  IF e1 # "none" THEN [err |-> e1, metas |-> metas]
             ELSE IF e2 # "none" THEN [err |-> e2, metas |-> metas]
             ELSE validate_and_set(cols, stored,
                    IF cols[k].metadata # NoList
                    THEN [metas EXCEPT ![k] = write_metadata(cols[k].metadata)]
                    ELSE metas,
                    append, k + 1)

\* isna(a.data).all(axis=0) per row of one values axis: only float and complex
\* data can hold NaN once converted for storage
IsNaStored(col, cell) == col.dtype \in {"float64", "complex128"} /\ cell = NA

\* the all-NaN mask of write_data: one flag per row
DropMask(cols, nrows) ==
    [i \in 1..nrows |->
        \A k \in DOMAIN cols : \A j \in DOMAIN cols[k].data :
            IsNaStored(cols[k], cols[k].data[j][i])]

\* the number of chunks without the one for the remainder: the variant of
\* NumChunks that loses the rows after the last full chunk
NumChunksFloor(nrows, chunksize) == nrows \div chunksize

\* the number of chunks write_data loops over
NumChunks(nrows, chunksize) == (nrows \div chunksize) + 1

\* write_data_chunk for the rows [start_i, end_i) of the batch: the rows that
\* the mask does not drop
write_data_chunk(allrows, mask, dropna, start_i, end_i) ==
    LET chunk == Slice(allrows, start_i, end_i)
        m == Slice(mask, start_i, end_i)
        keep == SelectSeq(Positions(Len(chunk)), LAMBDA i : ~(dropna /\ m[i]))
    IN  [k \in DOMAIN keep |-> chunk[keep[k]]]

RECURSIVE write_chunks(_, _, _, _, _, _)
write_chunks(allrows, mask, dropna, chunksize, chunks, i) ==
    LET nrows == Len(allrows)
        start_i == i * chunksize
        end_i == Min2((i + 1) * chunksize, nrows)
    IN  IF i >= chunks \/ start_i >= end_i THEN <<>>
        ELSE write_data_chunk(allrows, mask, dropna, start_i, end_i)
             \o write_chunks(allrows, mask, dropna, chunksize, chunks, i + 1)

\* the rows write_data appends to the table for the converted axes
write_data(index, cols, chunksize_arg, dropna) ==
    LET nrows == Len(index)
        chunksize == IF chunksize_arg = NoInt THEN DefaultChunk ELSE chunksize_arg
        allrows == [i \in 1..nrows |->
                       [index |-> index[i],
                        vals |-> [k \in DOMAIN cols |->
                                    [j \in DOMAIN cols[k].data |-> cols[k].data[j][i]]]]]
    IN  write_chunks(allrows, DropMask(cols, nrows), dropna, chunksize,
                     NumChunks(nrows, chunksize), 0)

\* the table node AppendableTable.write works on: the existing table, or the
\* table created from the axes, with the info of the axes set on it
table_of_axes(ax, node, pandas_type) ==
    IF node.kind = "table"
    THEN [node EXCEPT !.info = [index_name |-> ax.index_name]]
    ELSE [kind |-> "table", pandas_type |-> pandas_type,
          index_cols |-> <<"index">>,
          values_cols |-> [k \in DOMAIN ax.cols |-> ax.cols[k].cname],
          non_index_axes |-> ax.non_index_axes,
          data_columns |-> ax.data_columns,
          nan_rep |-> NanLen,
          info |-> [index_name |-> ax.index_name],
          cols |-> [k \in DOMAIN ax.cols |-> StoredCol(ax.cols[k])],
          metas |-> [k \in DOMAIN ax.cols |-> NoList],
          rows |-> <<>>]

\* the end of AppendableTable.write: the metadata validated and set, then the
\* rows written
write_validated(ax, t, vs, chunksize, dropna) ==
    IF vs.err # "none" THEN [node |-> [t EXCEPT !.metas = vs.metas], err |-> vs.err]
    ELSE [node |-> [t EXCEPT !.metas = vs.metas,
                             !.rows = @ \o write_data(ax.index, ax.cols, chunksize,
                                                      dropna)],
          err |-> "none"]

\* AppendableTable.write once create_axes has returned
write_axes(ax, node, t, pandas_type, append, chunksize, dropna) ==
    IF ax.err # "none"
    THEN [node |-> IF node.kind = "table" THEN node
                   ELSE [kind |-> "group", pandas_type |-> pandas_type],
          err |-> ax.err]
    ELSE write_validated(ax, t,
                         validate_and_set(ax.cols, t.cols, t.metas,
                                          append /\ node.kind = "table", 1),
                         chunksize, dropna)

\* the table node for the axes, then the write
write_table(ax, node, pandas_type, append, chunksize, dropna) ==
    write_axes(ax, node, table_of_axes(ax, node, pandas_type), pandas_type, append,
               chunksize, dropna)

\* AppendableTable.write of frame x into the node under the key (absent or a
\* bare group for a new table): returns the node left behind and the error
AppendableTable_write(x, node, pandas_type, append, mi, data_columns, chunksize, dropna) ==
    write_table(create_axes(x, node, append, mi, data_columns), node, pandas_type,
                append, chunksize, dropna)

\* the positions of the indexables without the offset of the index columns
indexables_from_zero(node) ==
    [k \in DOMAIN node.index_cols |-> [name |-> node.index_cols[k], pos |-> k - 1]]
    \o [k \in DOMAIN node.values_cols |-> [name |-> node.values_cols[k], pos |-> k - 1]]

\* Table.indexables, as infer_axes builds them from the persisted index_cols
\* and values_cols attributes: the name and the position of every column
indexables(node) ==
    [k \in DOMAIN node.index_cols |-> [name |-> node.index_cols[k], pos |-> k - 1]]
    \o [k \in DOMAIN node.values_cols |->
           [name |-> node.values_cols[k], pos |-> Len(node.index_cols) + k - 1]]

\* --------------------------------------------------------------- Selection
(***************************************************************************)
(* A where argument after _ensure_term:                                    *)
(*   [kind "none"]                      no selection                       *)
(*   [kind "coords", coords]            a list of row numbers              *)
(*   [kind "mask", mask]                a list of booleans                 *)
(*   [kind "term", field, op, v]        a comparison evaluated by the file *)
(*                                      library (the condition)            *)
(*   [kind "filter", field, op, vs]     a membership test applied to the   *)
(*                                      object read (the filter)           *)
(***************************************************************************)
NoWhere == [kind |-> "none"]

\* a comparison as numexpr and pandas evaluate it; a missing value compares
\* unequal to everything
Compare(cell, op, v) ==
    IF cell = NA THEN op = "!="
    ELSE CASE op = "==" -> cell = v
           [] op = "!=" -> cell # v
           [] op = ">=" -> cell >= v
           [] op = "<"  -> cell < v
           [] OTHER -> FALSE

\* the fields a term may name: the index and the data columns
queryables(node) == {"index"} \cup Range(node.data_columns)

\* the stored value of a queryable field in a stored row
FieldOf(node, row, field) ==
    IF field = "index" THEN row.index
    ELSE row.vals[CHOOSE k \in DOMAIN node.cols : node.cols[k].cname = field][1]

\* is the stored field a fixed-width string column
IsStringField(node, field) ==
    field # "index" /\ \E k \in DOMAIN node.cols :
        node.cols[k].cname = field /\ node.cols[k].kind = "string"

\* a stored cell as the file library compares it: the bytes of a string
\* column are compared as written, so nan_rep is an ordinary string there
CompareStored(node, row, w) ==
    IF IsStringField(node, w.field)
    THEN (w.op = "==") = (FieldOf(node, row, w.field) = w.v)
    ELSE Compare(FieldOf(node, row, w.field), w.op, w.v)

\* Selection.__init__: the coordinates, or the error it raises.  The range
\* ValueError raised for a coordinate outside [start, stop) is caught by the
\* except clause around the inference of the where; the coordinates stay
\* unset, the integer array goes to generate() as an expression, and the
\* call ends in the ValueError raised for a where that is no expression.
Selection_init(node, where, start, stop) ==
    CASE where.kind = "coords" ->
            IF \/ (start # NoInt /\ \E i \in DOMAIN where.coords : where.coords[i] < start)
               \/ (stop # NoInt /\ \E i \in DOMAIN where.coords : where.coords[i] >= stop)
            THEN [err |-> "ValueError", coordinates |-> NoList]
            ELSE [err |-> "none", coordinates |-> where.coords]
      [] where.kind = "mask" ->
            LET lo == IF start = NoInt THEN 0 ELSE start
                hi == IF stop = NoInt THEN Len(node.rows) ELSE stop
                n == Max2(hi - lo, 0)
            IN  IF Len(where.mask) # n
                THEN [err |-> "IndexError", coordinates |-> NoList]
                ELSE [err |-> "none",
                      coordinates |->
                          LET keep == SelectSeq(Positions(n), LAMBDA i : where.mask[i])
                          IN  [k \in DOMAIN keep |-> lo + keep[k] - 1]]
      [] where.kind \in {"term", "filter"} ->
            IF where.field \in queryables(node)
            THEN [err |-> "none", coordinates |-> NoList]
            ELSE [err |-> "ValueError", coordinates |-> NoList]
      [] OTHER -> [err |-> "none", coordinates |-> NoList]

\* np.arange(lo, hi)
Arange(lo, hi) == [k \in 1..Max2(hi - lo, 0) |-> lo + k - 1]

\* the row numbers (0-based) in [start, stop) of an n-row table
RowRange(n, start, stop) ==
    LET lo == IF start = NoInt THEN 0 ELSE start
        hi == Min2(IF stop = NoInt THEN n ELSE stop, n)
    IN  [k \in 1..Max2(hi - lo, 0) |-> lo + k - 1]

\* a selection that reads every row of the range: the variant of
\* Selection_select that ignores the condition
Selection_read_all(node, where, sel, start, stop) ==
    RowRange(Len(node.rows), start, stop)

\* Selection.select: the stored rows read for the selection, as row numbers
Selection_select(node, where, sel, start, stop) ==
    IF where.kind = "term"
    THEN SelectSeq(RowRange(Len(node.rows), start, stop),
                   LAMBDA c : CompareStored(node, node.rows[c + 1], where))
    ELSE IF sel.coordinates # NoList THEN sel.coordinates
    ELSE RowRange(Len(node.rows), start, stop)

\* Selection.select_coords: get_where_list returns the matching row numbers
\* sorted; a coordinate list is returned as it was passed
select_coords(node, where, sel, start, stop) ==
    LET nrows == Len(node.rows)
        lo == IF start = NoInt THEN 0 ELSE IF start < 0 THEN start + nrows ELSE start
        hi == IF stop = NoInt THEN nrows ELSE IF stop < 0 THEN stop + nrows ELSE stop
    IN  IF where.kind = "term"
        THEN SelectSeq(RowRange(nrows, lo, hi),
                       LAMBDA c : CompareStored(node, node.rows[c + 1], where))
        ELSE IF sel.coordinates # NoList THEN sel.coordinates
        ELSE Arange(lo, hi)

\* Table.read_coordinates: the coordinates of the selection; a filter is
\* applied to the column read between the lowest and the highest coordinate,
\* which raises ValueError (min of an empty array) when nothing is selected
Table_read_coordinates(node, where, start, stop) ==
    LET sel == Selection_init(node, where, start, stop)
        coords == select_coords(node, where, sel, start, stop)
        keepIf(c) == (FieldOf(node, node.rows[c + 1], where.field) \in where.vs)
                        = (where.op = "isin")
    IN  IF sel.err # "none" THEN [err |-> sel.err, coords |-> NoList]
        ELSE IF where.kind # "filter" THEN [err |-> "none", coords |-> coords]
        ELSE IF coords = <<>> THEN [err |-> "ValueError", coords |-> NoList]
        ELSE IF \E k \in DOMAIN coords : coords[k] >= Len(node.rows)
        THEN [err |-> "IndexError", coords |-> NoList]
        ELSE [err |-> "none", coords |-> SelectSeq(coords, keepIf)]

\* ------------------------------------------------------------- table read
\* the in-memory dtype DataCol.convert gives the cells of a values axis
ReadDtype(col) ==
    CASE col.meta = "category" -> "category"
      [] col.dtype = "datetime64" -> "datetime64[ns]"
      [] col.dtype = "timedelta64" -> "timedelta64[ns]"
      [] col.kind = "string" -> "object"
      [] OTHER -> col.dtype

\* DataCol.convert of one stored cell: a stored string equal to nan_rep is
\* read as a missing value
convert(col, nan_rep, cell) ==
    IF col.kind = "string" /\ cell = nan_rep THEN NA ELSE cell

\* the categories a categorical axis is rebuilt with: the metadata read from
\* the file, an empty set when none is stored
ReadCats(node, k) ==
    IF node.cols[k].meta = "category" /\ node.metas[k] # NoList
    THEN node.metas[k] ELSE <<>>

\* process_axes: the filter of the selection applied to the object read
process_filter(df, where) ==
    IF where.kind # "filter" THEN [err |-> "none", ret |-> df]
    ELSE LET keepIf(v) == (v \in where.vs) = (where.op = "isin")
             j == IndexOf(Labels(df), where.field)
             takers == SelectSeq(Positions(NRows(df)),
                          LAMBDA i : keepIf(IF where.field = "index" THEN df.idx[i]
                                            ELSE df.data[i][j]))
         IN  IF where.field # "index" /\ j = 0
             THEN [err |-> "ValueError", ret |-> NoObj]
             ELSE [err |-> "none",
                   ret |-> [df EXCEPT !.idx = [k \in DOMAIN takers |-> df.idx[takers[k]]],
                                      !.data = [k \in DOMAIN takers |-> df.data[takers[k]]]]]

\* AppendableFrameTable.read: select the rows, convert every axis, put the
\* columns in the order of the persisted non-index axis, apply the filter
AppendableFrameTable_read(node, where, start, stop) ==
    LET sel == Selection_init(node, where, start, stop)
        coords == Selection_select(node, where, sel, start, stop)
        axisOf(l) == CHOOSE k \in DOMAIN node.cols : l \in Range(node.cols[k].values)
        itemOf(l) == IndexOf(node.cols[axisOf(l)].values, l)
        labels == node.non_index_axes
        df == MkFrame(IF node.info.index_name = NoAttr THEN NoName
                      ELSE node.info.index_name,
                      [k \in DOMAIN coords |-> node.rows[coords[k] + 1].index],
                      [j \in DOMAIN labels |->
                          Col(labels[j], ReadDtype(node.cols[axisOf(labels[j])]),
                              ReadCats(node, axisOf(labels[j])))],
                      [k \in DOMAIN coords |->
                          [j \in DOMAIN labels |->
                              convert(node.cols[axisOf(labels[j])], node.nan_rep,
                                  node.rows[coords[k] + 1].vals[axisOf(labels[j])][itemOf(labels[j])])]])
    IN  IF sel.err # "none" THEN [err |-> sel.err, ret |-> NoObj]
        ELSE IF \E k \in DOMAIN coords : coords[k] < 0 \/ coords[k] >= Len(node.rows)
        THEN [err |-> "IndexError", ret |-> NoObj]
        ELSE process_filter(df, where)

\* AppendableSeriesTable.read: the first column of the frame read, the default
\* name "values" removed
AppendableSeriesTable_read(node, where, start, stop) ==
    LET r == AppendableFrameTable_read(node, where, start, stop)
        s == r.ret
    IN  IF r.err # "none" THEN r
        ELSE [err |-> "none",
              ret |-> [s EXCEPT !.typ = "series",
                                !.name = IF s.cols[1].label = ValuesName THEN NoName
                                         ELSE s.cols[1].label,
                                !.cols = <<[s.cols[1] EXCEPT !.label = ""]>>]]

\* ------------------------------------------------------------------ delete
\* a remove_rows that refuses to remove every row of the table
remove_rows_not_all(rows, start, stop) ==
    LET lo == Max2(Min2(start, Len(rows)), 0)
        hi == Max2(Min2(stop, Len(rows)), lo)
    IN  IF lo = 0 /\ hi = Len(rows) THEN [rows |-> rows, n |-> 0]
        ELSE [rows |-> SubSeqSafe(rows, 1, lo) \o SubSeqSafe(rows, hi + 1, Len(rows)),
              n |-> hi - lo]

\* table.remove_rows(start, stop): the rows left and the number removed; the
\* range is clipped to the table
remove_rows(rows, start, stop) ==
    LET lo == Max2(Min2(start, Len(rows)), 0)
        hi == Max2(Min2(stop, Len(rows)), lo)
    IN  [rows |-> SubSeqSafe(rows, 1, lo) \o SubSeqSafe(rows, hi + 1, Len(rows)),
         n |-> hi - lo]

\* Series(values).sort_values(): the pairs <<value, label>> in ascending value
\* order, the label of a value being its position in the unsorted list
RECURSIVE InsertPair(_, _)
InsertPair(sorted, p) ==
    IF sorted = <<>> THEN <<p>>
    ELSE IF p[1] < Head(sorted)[1] THEN <<p>> \o sorted
    ELSE <<Head(sorted)>> \o InsertPair(Tail(sorted), p)

RECURSIVE sort_values(_, _)
sort_values(values, k) ==
    IF k = 0 THEN <<>>
    ELSE InsertPair(sort_values(values, k - 1), <<values[k], k - 1>>)

\* list(diff[diff > 1].index): the labels of the sorted elements that exceed
\* their predecessor by more than one, then the boundary fix-ups
delete_groups(sorted) ==
    LET ln == Len(sorted)
        jumps == SelectSeq(Positions(ln),
                           LAMBDA p : p > 1 /\ sorted[p][1] - sorted[p - 1][1] > 1)
        g0 == [k \in DOMAIN jumps |-> sorted[jumps[k]][2]]
        g1 == IF g0 = <<>> THEN <<0>> ELSE g0
        g2 == IF g1[Len(g1)] # ln THEN Append(g1, ln) ELSE g1
    IN  IF g2[1] # 0 THEN <<0>> \o g2 ELSE g2

\* the loop over reversed(groups): group number k with upper bound pg; an
\* empty take raises IndexError at rows.index[0], the removals made before it
\* stay; calls are the remove_rows(start, stop) calls made so far
RECURSIVE delete_loop(_, _, _, _, _, _)
delete_loop(rows, sorted, groups, k, pg, calls) ==
    IF k = 0 THEN [rows |-> rows, err |-> "none", calls |-> calls]
    ELSE LET g == groups[k]
         IN  IF g >= pg THEN [rows |-> rows, err |-> "IndexError", calls |-> calls]
             ELSE delete_loop(
                      remove_rows(rows, sorted[g + 1][1], sorted[pg][1] + 1).rows,
                      sorted, groups, k - 1, g,
                      Append(calls, <<sorted[g + 1][1], sorted[pg][1] + 1>>))

\* AppendableTable.delete: the node left (NoNode when the whole node goes),
\* the error and the returned number
AppendableTable_delete(node, where, start, stop) ==
    IF where.kind = "none"
    THEN IF start = NoInt /\ stop = NoInt
         THEN [node |-> NoNode, err |-> "none", n |-> Len(node.rows), calls |-> <<>>]
         ELSE LET lo == IF start = NoInt THEN 0 ELSE start
                  hi == IF stop = NoInt THEN Len(node.rows) ELSE stop
                  r == remove_rows(node.rows, lo, hi)
              IN  [node |-> [node EXCEPT !.rows = r.rows], err |-> "none", n |-> r.n,
                   calls |-> <<<<lo, hi>>>>]
    ELSE LET sel == Selection_init(node, where, start, stop)
             values == select_coords(node, where, sel, start, stop)
             sorted == sort_values(values, Len(values))
             ln == Len(sorted)
             groups == delete_groups(sorted)
             loop == delete_loop(node.rows, sorted, groups, Len(groups) - 1,
                                 groups[Len(groups)], <<>>)
         IN  IF sel.err # "none"
             THEN [node |-> node, err |-> sel.err, n |-> NoInt, calls |-> <<>>]
             ELSE IF ln = 0 THEN [node |-> node, err |-> "none", n |-> 0, calls |-> <<>>]
             ELSE [node |-> [node EXCEPT !.rows = loop.rows], err |-> loop.err,
                   n |-> IF loop.err = "none" THEN ln ELSE NoInt,
                   calls |-> loop.calls]

\* ---------------------------------------------------------------- HDFStore
\* _ensure_term: an empty list becomes None
_ensure_term(where) ==
    IF (where.kind = "coords" /\ where.coords = <<>>)
       \/ (where.kind = "mask" /\ where.mask = <<>>)
    THEN NoWhere ELSE where

\* the pandas_type _create_storer works with: the attribute of the group when
\* it is set, otherwise the type of the value and the format
StorerType(node, value, format) ==
    IF node.kind \in {"fixed", "table"} THEN node.pandas_type
    ELSE IF node.kind = "group" /\ node.pandas_type # NoAttr THEN node.pandas_type
    ELSE IF format = "table" THEN IF value.typ = "series" THEN "series_table"
                                  ELSE "frame_table"
    ELSE value.typ

IsTableType(pt) == pt \in {"series_table", "frame_table"}

\* create_index over the index and the data columns: a complex data column
\* cannot be indexed
create_index(node) ==
    IF \E k \in DOMAIN node.cols : node.cols[k].isdc /\ node.cols[k].dtype = "complex128"
    THEN "TypeError" ELSE "none"

\* the end of _write_to_group for a table: create_index once the write is done
index_written(w) ==
    IF w.err # "none" THEN w ELSE [node |-> w.node, err |-> create_index(w.node)]

\* s.write of the storer chosen for the group, then create_index for a table
StorerWrite(node, pt, value, append, mi, data_columns, chunksize, dropna) ==
    IF pt = "series" THEN SeriesFixed_write(value)
    ELSE IF pt = "frame" THEN BlockManagerFixed_write(value)
    ELSE IF pt = "frame_table" /\ value.typ = "series"
    THEN [node |-> IF node.kind = "table" THEN node
                   ELSE [kind |-> "group", pandas_type |-> pt],
          err |-> "TypeError"]
    ELSE index_written(
             AppendableTable_write(
                 IF pt = "series_table" /\ value.typ = "series"
                 THEN SeriesToFrame(value) ELSE value,
                 node, pt, append, mi,
                 IF pt = "series_table" THEN AllCols ELSE data_columns,
                 chunksize, dropna))

\* the file and the error once the storer has written
written_outcome(f, key, w) == Outcome([f EXCEPT ![key] = w.node], w.err, NoObj, NoInt)

\* _write_to_group on an open store, after the removal of the node a put
\* replaces
write_group(f1, key, value, format, append, mi, data_columns, chunksize, dropna) ==
    IF IsEmpty(value) /\ (format = "table" \/ append)
    THEN Outcome(f1, "none", NoObj, NoInt)
    ELSE IF append /\ (~IsTableType(StorerType(f1[key], value, format))
                       \/ (format = "fixed" /\ f1[key].kind \in {"fixed", "table"}))
    THEN Outcome([f1 EXCEPT ![key] =
                    IF f1[key] = NoNode
                    THEN [kind |-> "group", pandas_type |-> NoAttr]
                    ELSE f1[key]],
                 "ValueError", NoObj, NoInt)
    ELSE written_outcome(f1, key,
             StorerWrite(f1[key], StorerType(f1[key], value, format), value, append,
                         mi, data_columns, chunksize, dropna))

\* _write_to_group on an open store
_write_to_group(f, key, value, format, append, mi, data_columns, chunksize, dropna) ==
    write_group(IF f[key] # NoNode /\ ~append THEN [f EXCEPT ![key] = NoNode] ELSE f,
                key, value, format, append, mi, data_columns, chunksize, dropna)

\* a file opened read-only refuses every modification
ReadOnly(m, f, out) ==
    IF m = "r" /\ out.file # f THEN Outcome(f, "FileModeError", NoObj, NoInt)
    ELSE out

HDFStore_put(h, m, f, key, value, format, append, mi, data_columns, chunksize, dropna) ==
    IF h # "open" THEN Outcome(f, "ClosedFileError", NoObj, NoInt)
    ELSE IF m = "r" /\ f[key] # NoNode /\ ~append
    THEN Outcome(f, "FileModeError", NoObj, NoInt)
    ELSE ReadOnly(m, f, _write_to_group(f, key, value, format, append, mi,
                                        data_columns, chunksize, dropna))

HDFStore_append(h, m, f, key, value, format, mi, data_columns, chunksize, dropna) ==
    IF h # "open" THEN Outcome(f, "ClosedFileError", NoObj, NoInt)
    ELSE ReadOnly(m, f, _write_to_group(f, key, value, format, TRUE, mi,
                                        data_columns, chunksize, dropna))

\* s.read of the storer created for a stored node
StorerRead(node, where, start, stop) ==
    CASE node.kind = "fixed" ->
            IF where # NoWhere THEN [err |-> "TypeError", ret |-> NoObj]
            ELSE IF node.pandas_type = "series" THEN SeriesFixed_read(node)
            ELSE BlockManagerFixed_read(node)
      [] node.kind = "table" ->
            IF node.pandas_type = "series_table"
            THEN AppendableSeriesTable_read(node, where, start, stop)
            ELSE AppendableFrameTable_read(node, where, start, stop)
      [] node.kind = "group" /\ node.pandas_type = NoAttr ->
            [err |-> "TypeError", ret |-> NoObj]
      [] OTHER -> [err |-> "none", ret |-> NoObj]

\* select: TableIterator fills in start and stop for a table
HDFStore_select(h, f, key, where, start, stop) ==
    IF h # "open" THEN Outcome(f, "ClosedFileError", NoObj, NoInt)
    ELSE IF f[key] = NoNode THEN Outcome(f, "KeyError", NoObj, NoInt)
    ELSE LET node == f[key]
             nrows == IF node.kind = "table" THEN Len(node.rows) ELSE 0
             start_ == IF node.kind = "table" /\ start = NoInt THEN 0 ELSE start
             stop_ == IF node.kind # "table" THEN stop
                      ELSE Min2(nrows, IF stop = NoInt THEN nrows ELSE stop)
             r == StorerRead(node, _ensure_term(where), start_, stop_)
         IN  Outcome(f, r.err, r.ret, NoInt)

HDFStore_get(h, f, key) ==
    IF h # "open" THEN Outcome(f, "ClosedFileError", NoObj, NoInt)
    ELSE IF f[key] = NoNode THEN Outcome(f, "KeyError", NoObj, NoInt)
    ELSE LET r == StorerRead(f[key], NoWhere, NoInt, NoInt)
         IN  Outcome(f, r.err, r.ret, NoInt)

\* no iterator was returned by a select
NoIter == [state |-> "none"]

\* a read that passes neither the where nor the column list to a
\* fixed-format storer
StorerReadUnchecked(node, where, start, stop, columns) ==
    StorerRead(node, IF node.kind = "fixed" THEN NoWhere ELSE where, start, stop)

\* validate_read and process_axes applied to the outcome r of the read: a
\* fixed-format storer refuses a where and a column list; a table limits the
\* columns of the object it read to the selected ones, the filter of the
\* selection then needs its field among them
process_columns(node, where, columns, r) ==
    IF node.kind = "fixed"
    THEN IF columns # NoCols \/ where # NoWhere
         THEN [err |-> "TypeError", ret |-> NoObj]
         ELSE r
    ELSE IF columns = NoCols \/ node.kind # "table" \/ r.err # "none" THEN r
    ELSE IF where.kind = "filter" /\ where.field # "index"
            /\ where.field \notin Range(columns)
    THEN [err |-> "ValueError", ret |-> NoObj]
    ELSE IF node.pandas_type = "series_table"
    THEN IF node.non_index_axes[1] \in Range(columns) THEN r
         ELSE [err |-> "IndexError", ret |-> NoObj]
    ELSE [err |-> "none",
          ret |-> TakeCols(r.ret, SelectSeq(Labels(r.ret),
                                            LAMBDA l : l \in Range(columns)))]

\* s.read(where, columns, start, stop)
StorerReadColumns(node, where, start, stop, columns) ==
    process_columns(node, where, columns, StorerRead(node, where, start, stop))

\* TableIterator.__init__: start and stop are filled in and stop is clipped
\* for a table; a chunksize is set when an iterator is asked for
TableIterator_init(node, key, where, start, stop, columns, iterator, chunksize, auto_close, store) ==
    LET is_table == node.kind = "table"
        nrows == IF is_table THEN Len(node.rows) ELSE 0
        start_ == IF is_table /\ start = NoInt THEN 0 ELSE start
        stop_ == IF is_table THEN Min2(nrows, IF stop = NoInt THEN nrows ELSE stop)
                 ELSE stop
    IN  [state |-> "active", key |-> key, where |-> where,
         start |-> start_, stop |-> stop_, columns |-> columns,
         chunksize |-> IF iterator \/ chunksize # NoInt
                       THEN IF chunksize = NoInt THEN IterChunk ELSE chunksize
                       ELSE NoInt,
         coordinates |-> NoList, current |-> start_,
         auto_close |-> auto_close, store |-> store]

\* TableIterator.get_result: the iterator itself, with the coordinates of the
\* where read without start and stop, when a chunksize is set; otherwise the
\* object read, after which close() closes the store under auto_close
\* the outcome of a select that raises e
SelectRaise(e) == [err |-> e, ret |-> NoObj, it |-> NoIter, closed |-> FALSE]

\* get_result with a chunksize: rc is the outcome of read_coordinates
get_result_chunked(t, rc) ==
    IF rc.err # "none" THEN SelectRaise(rc.err)
    ELSE [err |-> "none", ret |-> NoObj,
          it |-> [t EXCEPT !.coordinates = rc.coords], closed |-> FALSE]

\* get_result without a chunksize: r is the outcome of the read, close()
\* follows it
get_result_read(t, r) ==
    IF r.err # "none" THEN SelectRaise(r.err)
    ELSE [err |-> "none", ret |-> r.ret, it |-> NoIter, closed |-> t.auto_close]

TableIterator_get_result(t, node) ==
    IF node.kind = "group" THEN SelectRaise("TypeError")
    ELSE IF t.chunksize # NoInt
    THEN IF node.kind # "table" THEN SelectRaise("TypeError")
         ELSE get_result_chunked(t, Table_read_coordinates(node, t.where, NoInt, NoInt))
    ELSE get_result_read(t, StorerReadColumns(node, t.where, t.start, t.stop,
                                              t.columns))

\* select with its keyword arguments
HDFStore_select_kw(h, f, key, where, start, stop, columns, iterator, chunksize, auto_close, store) ==
    IF h # "open" THEN SelectRaise("ClosedFileError")
    ELSE IF f[key] = NoNode THEN SelectRaise("KeyError")
    ELSE TableIterator_get_result(
             TableIterator_init(f[key], key, _ensure_term(where), start, stop,
                                columns, iterator, chunksize, auto_close, store),
             f[key])

\* TableIterator.__iter__, one pass through the loop: the chunk of
\* coordinates at the positions [current, min(current + chunksize, stop)) is
\* read and yielded unless it is empty; past the last chunk close() is
\* called.  An exception raised by the read ends the generator.
\* the generator ends in the given state
IterEnd(t, state, e, closed) ==
    [it |-> [t EXCEPT !.state = state], err |-> e, ret |-> NoObj,
     closed |-> closed, chunk |-> NoList, from |-> NoInt, to |-> NoInt]

\* the chunk read: r is the outcome of the read of its coordinates
iter_chunk(t, stop_, chunk, r) ==
    IF r.err # "none" THEN IterEnd(t, "failed", r.err, FALSE)
    ELSE [it |-> [t EXCEPT !.current = stop_], err |-> "none",
          ret |-> IF NRows(r.ret) = 0 THEN NoObj ELSE r.ret,
          closed |-> FALSE, chunk |-> chunk, from |-> t.current, to |-> stop_]

\* the chunk of coordinates at the positions [current, stop_)
iter_read(t, node, stop_, chunk) ==
    iter_chunk(t, stop_, chunk,
               StorerReadColumns(node, [kind |-> "coords", coords |-> chunk],
                                 NoInt, NoInt, t.columns))

TableIterator_iter(t, h, f) ==
    IF t.current < t.stop
    THEN IF h # "open" \/ f[t.key].kind # "table"
         THEN IterEnd(t, "failed", "ClosedNodeError", FALSE)
         ELSE iter_read(t, f[t.key], Min2(t.current + t.chunksize, t.stop),
                        Slice(t.coordinates, t.current,
                              Min2(t.current + t.chunksize, t.stop)))
    ELSE IterEnd(t, "done", "none", t.auto_close)

\* an iterator that is resumed where it stopped when it is iterated again
TableIterator_resume(t) == [t EXCEPT !.state = "active"]

\* TableIterator.__iter__ called again on the same object: a new generator
\* that starts with current = self.start
TableIterator_restart(t) == [t EXCEPT !.state = "active", !.current = t.start]

\* select_as_coordinates: only a table has coordinates
HDFStore_select_as_coordinates(h, f, key, where, start, stop) ==
    IF h # "open" THEN [err |-> "ClosedFileError", coords |-> NoList]
    ELSE IF f[key] = NoNode THEN [err |-> "KeyError", coords |-> NoList]
    ELSE IF f[key].kind # "table" THEN [err |-> "TypeError", coords |-> NoList]
    ELSE Table_read_coordinates(f[key], _ensure_term(where), start, stop)

\* a remove that empties a table instead of removing its node when no where,
\* start or stop is given
HDFStore_remove_truncate(h, m, f, key, where_arg, start, stop) ==
    LET where == _ensure_term(where_arg)
        node == f[key]
        all_none == where = NoWhere /\ start = NoInt /\ stop = NoInt
        gone == [f EXCEPT ![key] = NoNode]
        d == AppendableTable_delete(node, where, start, stop)
    IN  IF h # "open"
        THEN IF where # NoWhere THEN Outcome(f, "ValueError", NoObj, NoInt)
             ELSE Outcome(f, "ClosedFileError", NoObj, NoInt)
        ELSE IF node = NoNode THEN Outcome(f, "KeyError", NoObj, NoInt)
        ELSE IF node.kind = "group" /\ node.pandas_type = NoAttr
        THEN IF where # NoWhere THEN Outcome(f, "ValueError", NoObj, NoInt)
             ELSE ReadOnly(m, f, Outcome(gone, "none", NoObj, NoInt))
        ELSE IF all_none /\ node.kind = "table"
        THEN ReadOnly(m, f, Outcome([f EXCEPT ![key].rows = <<>>], "none", NoObj, NoInt))
        ELSE IF all_none THEN ReadOnly(m, f, Outcome(gone, "none", NoObj, NoInt))
        ELSE IF node.kind = "fixed" THEN Outcome(f, "ValueError", NoObj, NoInt)
        ELSE IF node.kind = "group"
        THEN Outcome(f, IF where = NoWhere THEN "AttributeError" ELSE "none",
                     NoObj, NoInt)
        ELSE ReadOnly(m, f, [Outcome([f EXCEPT ![key] = d.node], d.err, NoObj, d.n)
                                EXCEPT !.calls = d.calls])

\* remove: get_storer runs inside a try whose handler for anything but
\* KeyError raises ValueError when a where was passed and otherwise asks
\* get_node for the node to remove
HDFStore_remove(h, m, f, key, where_arg, start, stop) ==
    LET where == _ensure_term(where_arg)
        node == f[key]
        all_none == where = NoWhere /\ start = NoInt /\ stop = NoInt
        gone == [f EXCEPT ![key] = NoNode]
        d == AppendableTable_delete(node, where, start, stop)
    IN  IF h # "open"
        THEN IF where # NoWhere THEN Outcome(f, "ValueError", NoObj, NoInt)
             ELSE Outcome(f, "ClosedFileError", NoObj, NoInt)
        ELSE IF node = NoNode THEN Outcome(f, "KeyError", NoObj, NoInt)
        ELSE IF node.kind = "group" /\ node.pandas_type = NoAttr
        THEN IF where # NoWhere THEN Outcome(f, "ValueError", NoObj, NoInt)
             ELSE ReadOnly(m, f, Outcome(gone, "none", NoObj, NoInt))
        ELSE IF all_none THEN ReadOnly(m, f, Outcome(gone, "none", NoObj, NoInt))
        ELSE IF node.kind = "fixed" THEN Outcome(f, "ValueError", NoObj, NoInt)
        ELSE IF node.kind = "group"
        THEN Outcome(f, IF where = NoWhere THEN "AttributeError" ELSE "none",
                     NoObj, NoInt)
        ELSE ReadOnly(m, f, [Outcome([f EXCEPT ![key] = d.node], d.err, NoObj, d.n)
                                EXCEPT !.calls = d.calls])

\* groups() / keys(): the groups that carry a pandas_type or hold a table
HDFStore_keys(h, f) ==
    IF h # "open" THEN [err |-> "ClosedFileError", ks |-> {}]
    ELSE [err |-> "none",
          ks |-> {k \in DOMAIN f : /\ f[k] # NoNode
                                   /\ ~(f[k].kind = "group" /\ f[k].pandas_type = NoAttr)}]

\* get_node: _check_if_open, then the node or None
HDFStore_get_node(h, f, key) ==
    IF h # "open" THEN [err |-> "ClosedFileError", found |-> FALSE]
    ELSE [err |-> "none", found |-> f[key] # NoNode]

\* __contains__: the node get_node finds, under the key with or without its
\* leading '/', whatever the node holds
HDFStore_contains(h, f, key) ==
    LET node == HDFStore_get_node(h, f, key)
    IN  [err |-> node.err, ret |-> node.found]

\* walk_groups visits the groups in preorder, the children of a group in
\* alphabetical order; the keys of the model are names of children of the root
WalkOrder == <<"b", "df">>

\* the groups under meta/ that hold the persisted categories of a table
MetaGroups(key, node) ==
    IF node.kind # "table" THEN <<>>
    ELSE LET ks == SelectSeq(Positions(Len(node.cols)),
                             LAMBDA k : node.metas[k] # NoList)
         IN  [i \in DOMAIN ks |->
                 [key |-> key, path |-> <<key, "meta", node.cols[ks[i]].cname, "meta">>]]

\* HDFStore.groups(): the groups that carry a pandas_type or hold a table, in
\* the order of the walk
HDFStore_groups(f) ==
    LET order == SelectSeq(WalkOrder,
                    LAMBDA k : /\ k \in DOMAIN f /\ f[k] # NoNode
                               /\ ~(f[k].kind = "group" /\ f[k].pandas_type = NoAttr))
    IN  Flatten([i \in DOMAIN order |->
                    <<[key |-> order[i], path |-> <<order[i]>>]>>
                        \o MetaGroups(order[i], f[order[i]])])

\* a check that takes no group for a metadata group
_is_metadata_of_none(group, parent_group) == FALSE

\* _is_metadata_of: some ancestor-or-self of the group is named "meta" and is
\* a child of the parent group
_is_metadata_of(group, parent_group) ==
    IF Len(group.path) <= Len(parent_group.path) THEN FALSE
    ELSE \E n \in 2..Len(group.path) :
            /\ SubSeq(group.path, 1, n - 1) = parent_group.path
            /\ group.path[n] = "meta"

\* read_hdf, the part inside the try: the key found when none is given, then
\* select with auto_close
read_hdf_select(h, f, key, where, start, stop, columns, iterator, chunksize, auto_close, store) ==
    LET groups == HDFStore_groups(f)
    IN  IF key = NoName /\ h # "open" THEN SelectRaise("ClosedFileError")
        ELSE IF key = NoName /\ Len(groups) = 0 THEN SelectRaise("ValueError")
        ELSE IF /\ key = NoName
                /\ \E i \in 2..Len(groups) : ~_is_metadata_of(groups[i], groups[1])
        THEN SelectRaise("ValueError")
        ELSE HDFStore_select_kw(h, f, IF key = NoName THEN groups[1].key ELSE key,
                                where, start, stop, columns, iterator, chunksize,
                                auto_close, store)

\* read_hdf after the try: r is the outcome of the select.  The handler of
\* the try closes the store read_hdf opened for ValueError, TypeError and
\* KeyError.
read_hdf_outcome(by_store, h, o, r) ==
    [err |-> r.err, ret |-> r.ret, it |-> r.it,
     handle |-> IF by_store /\ r.closed THEN "closed" ELSE h,
     own |-> IF by_store THEN o
             ELSE IF r.err \in {"ValueError", "TypeError", "KeyError"} \/ r.closed
             THEN "closed" ELSE "open"]

\* read_hdf(path_or_buf, key, mode, **kwargs): by_store tells that an
\* HDFStore was passed, otherwise the path of the existing file was passed
\* and read_hdf opens its own store on it.  The outcome holds the handle of
\* the caller's store and of read_hdf's own store afterwards.
read_hdf(by_store, h, o, f, key, mode_arg, where, start, stop, columns, iterator, chunksize) ==
    IF mode_arg \notin {"r", "r+", "a"}
    THEN [err |-> "ValueError", ret |-> NoObj, it |-> NoIter, handle |-> h, own |-> o]
    ELSE IF by_store /\ h # "open"
    THEN [err |-> "IOError", ret |-> NoObj, it |-> NoIter, handle |-> h, own |-> o]
    ELSE read_hdf_outcome(by_store, h, o,
             read_hdf_select(IF by_store THEN h ELSE "open", f, key,
                             _ensure_term(where), start, stop, columns, iterator,
                             chunksize, ~by_store,
                             IF by_store THEN "caller" ELSE "own"))

\* open(mode) on a store whose file exists: the error, and the handle, mode
\* and file content afterwards; mode "w" truncates
HDFStore_open(h, m, f, mode_arg) ==
    LET raises == /\ m # mode_arg
                  /\ ~(m \in {"a", "w"} /\ mode_arg \in {"r", "r+"})
                  /\ mode_arg = "w"
                  /\ h = "open"
        m1 == mode_arg
    IN  IF raises
        THEN [err |-> "PossibleDataLossError", handle |-> h, mode |-> m, file |-> f]
        ELSE [err |-> "none", handle |-> "open", mode |-> m1,
              file |-> IF m1 = "w" THEN [k \in DOMAIN f |-> NoNode] ELSE f]

\* ----------------------------------------------------------------- actions
Modes == {"a", "w", "r", "r+"}

NoKeys == {"<none>"}

EmptyFile == [k \in Keys |-> NoNode]

\* the keyword arguments of a select that is given none of them
NoKw == [columns |-> NoCols, iterator |-> FALSE, chunksize |-> NoInt,
         auto_close |-> FALSE, dropna |-> FALSE, dropna_table |-> FALSE]

\* the record of a call: the operation, the arguments that the properties
\* refer to, and the outcome
Call(op, key, value, format, where, start, stop, mi, err, ret, n) ==
    [op |-> op, key |-> key, value |-> value, format |-> format, where |-> where,
     start |-> start, stop |-> stop, mi |-> mi, err |-> err, ret |-> ret, n |-> n,
     ks |-> NoKeys, calls |-> <<>>, coords |-> NoList, kw |-> NoKw]

NoCall == Call("init", "", NoObj, "", NoWhere, NoInt, NoInt, NoMin, "none", NoObj, NoInt)

\* a call without data arguments
Call0(op, key, format, err) ==
    Call(op, key, NoObj, format, NoWhere, NoInt, NoInt, NoMin, err, NoObj, NoInt)

\* HDFStore(path, mode) on a path that holds no file yet
Init ==
    /\ handle = "open"
    /\ mode \in {"a", "w"}
    /\ file = EmptyFile
    /\ result = NoCall
    /\ last = EmptyFile
    /\ hist = [k \in Keys |-> <<>>]
    /\ it = NoIter
    /\ own = "none"

OpenOp(mode_arg) ==
    \E o \in {HDFStore_open(handle, mode, file, mode_arg)} :
        /\ handle' = o.handle
        /\ mode' = o.mode
        /\ file' = o.file
        /\ last' = file
        /\ hist' = IF o.file = file THEN hist ELSE [k \in DOMAIN hist |-> <<>>]
        /\ result' = Call0("open", "", mode_arg, o.err)
        /\ UNCHANGED <<it, own>>

CloseOp ==
    /\ handle' = "closed"
    /\ last' = file
    /\ result' = Call0("close", "", "", "none")
    /\ UNCHANGED <<mode, file, hist>>
    /\ UNCHANGED <<it, own>>

\* the schema attributes set_attrs persists for a table
SchemaAttrs(node) ==
    [index_cols |-> node.index_cols, values_cols |-> node.values_cols,
     non_index_axes |-> node.non_index_axes, data_columns |-> node.data_columns]

\* an entry of the write history of a key: the batch and the schema
\* attributes found in the file after the write
Written(value, node) == [value |-> value, attrs |-> SchemaAttrs(node)]

PutOp(key, value, format, mi, data_columns, chunksize, dropna) ==
    \E out \in {HDFStore_put(handle, mode, file, key, value, format, FALSE, mi,
                            data_columns, chunksize, dropna)} :
        /\ file' = out.file
        /\ last' = file
        /\ hist' = [hist EXCEPT ![key] =
                       IF out.file = file THEN @
                       ELSE IF out.err = "none" /\ out.file[key].kind = "table"
                       THEN <<Written(value, out.file[key])>>
                       ELSE <<>>]
        /\ result' = [Call("put", key, value, format, NoWhere, NoInt, NoInt, mi,
                           out.err, NoObj, NoInt)
                         EXCEPT !.kw.dropna = dropna]
        /\ UNCHANGED <<handle, mode>>
        /\ UNCHANGED <<it, own>>

AppendOp(key, value, format, mi, data_columns, chunksize, dropna) ==
    \E out \in {HDFStore_append(handle, mode, file, key, value, format, mi,
                               data_columns, chunksize, dropna)} :
        /\ Len(hist[key]) <= MaxAppends
        /\ file' = out.file
        /\ last' = file
        /\ hist' = [hist EXCEPT ![key] =
                       IF out.err = "none" /\ out.file[key].kind = "table"
                          /\ ~IsEmpty(value)
                       THEN Append(@, Written(value, out.file[key]))
                       ELSE @]
        /\ result' = [Call("append", key, value, format, NoWhere, NoInt, NoInt, mi,
                           out.err, NoObj, NoInt)
                         EXCEPT !.kw.dropna = dropna]
        /\ UNCHANGED <<handle, mode>>
        /\ UNCHANGED <<it, own>>

SelectOp(key, where, start, stop) ==
    \E out \in {HDFStore_select(handle, file, key, where, start, stop)} :
        /\ result' = Call("select", key, NoObj, "", where, start, stop, NoMin,
                          out.err, out.ret, NoInt)
        /\ last' = file
        /\ UNCHANGED <<handle, mode, file, hist>>
        /\ UNCHANGED <<it, own>>

GetOp(key) ==
    \E out \in {HDFStore_get(handle, file, key)} :
        /\ result' = Call("get", key, NoObj, "", NoWhere, NoInt, NoInt, NoMin,
                          out.err, out.ret, NoInt)
        /\ last' = file
        /\ UNCHANGED <<handle, mode, file, hist>>
        /\ UNCHANGED <<it, own>>

SelectAsCoordinatesOp(key, where, start, stop) ==
    \E out \in {HDFStore_select_as_coordinates(handle, file, key, where, start, stop)} :
        /\ result' = [Call("select_as_coordinates", key, NoObj, "", where, start,
                           stop, NoMin, out.err, NoObj, NoInt)
                         EXCEPT !.coords = out.coords]
        /\ last' = file
        /\ UNCHANGED <<handle, mode, file, hist>>
        /\ UNCHANGED <<it, own>>

RemoveOp(key, where, start, stop) ==
    \E out \in {HDFStore_remove(handle, mode, file, key, where, start, stop)} :
        /\ file' = out.file
        /\ last' = file
        /\ hist' = [hist EXCEPT ![key] = IF out.file[key] = NoNode THEN <<>> ELSE @]
        /\ result' = [Call("remove", key, NoObj, "", where, start, stop, NoMin,
                           out.err, NoObj, out.n) EXCEPT !.calls = out.calls]
        /\ UNCHANGED <<handle, mode>>
        /\ UNCHANGED <<it, own>>

KeysOp ==
    LET r == HDFStore_keys(handle, file)
    IN  /\ result' = [Call0("keys", "", "", r.err) EXCEPT !.ks = r.ks]
        /\ last' = file
        /\ UNCHANGED <<handle, mode, file, hist>>
        /\ UNCHANGED <<it, own>>

GroupsOp ==
    LET r == HDFStore_keys(handle, file)
    IN  /\ result' = [Call0("groups", "", "", r.err) EXCEPT !.ks = r.ks]
        /\ last' = file
        /\ UNCHANGED <<handle, mode, file, hist>>
        /\ UNCHANGED <<it, own>>

GetNodeOp(key) ==
    LET r == HDFStore_get_node(handle, file, key)
    IN  /\ result' = [Call0("get_node", key, "", r.err) EXCEPT
                         !.n = IF r.found THEN 1 ELSE 0]
        /\ last' = file
        /\ UNCHANGED <<handle, mode, file, hist>>
        /\ UNCHANGED <<it, own>>

\* key in store
ContainsOp(key) ==
    \E out \in {HDFStore_contains(handle, file, key)} :
        /\ result' = [Call0("contains", key, "", out.err) EXCEPT
                         !.n = IF out.ret THEN 1 ELSE 0]
        /\ last' = file
        /\ UNCHANGED <<handle, mode, file, hist>>
        /\ UNCHANGED <<it, own>>

\* select with keyword arguments on the caller's store
SelectKwOp(key, where, start, stop, columns, iterator, chunksize) ==
    \E out \in {HDFStore_select_kw(handle, file, key, where, start, stop, columns,
                                  iterator, chunksize, FALSE, "caller")} :
        /\ result' = [Call("select", key, NoObj, "", where, start, stop, NoMin,
                           out.err, out.ret, NoInt)
                         EXCEPT !.kw = [NoKw EXCEPT !.columns = columns,
                                                    !.iterator = iterator,
                                                    !.chunksize = chunksize]]
        /\ it' = out.it
        /\ last' = file
        /\ UNCHANGED <<handle, mode, file, hist, own>>

\* next() on the iterator a select returned: one pass through its loop
IterNextOp ==
    /\ it.state = "active"
    /\ \E out \in {TableIterator_iter(it, IF it.store = "own" THEN own ELSE handle,
                                       file)} :
          /\ result' = [Call("next", it.key, NoObj, "", it.where, out.from, out.to,
                             NoMin, out.err, out.ret, NoInt)
                           EXCEPT !.coords = out.chunk]
          /\ it' = out.it
          /\ handle' = IF out.closed /\ it.store = "caller" THEN "closed" ELSE handle
          /\ own' = IF out.closed /\ it.store = "own" THEN "closed" ELSE own
          /\ last' = file
          /\ UNCHANGED <<mode, file, hist>>

\* the iterator is iterated again after it was exhausted: the first pass
\* through the loop of the new generator
IterAgainOp ==
    /\ it.state = "done"
    /\ \E out \in {TableIterator_iter(TableIterator_restart(it),
                                       IF it.store = "own" THEN own ELSE handle,
                                       file)} :
          /\ result' = [Call("iter_again", it.key, NoObj, "", it.where, out.from,
                             out.to, NoMin, out.err, out.ret, NoInt)
                           EXCEPT !.coords = out.chunk]
          /\ it' = out.it
          /\ handle' = IF out.closed /\ it.store = "caller" THEN "closed" ELSE handle
          /\ own' = IF out.closed /\ it.store = "own" THEN "closed" ELSE own
          /\ last' = file
          /\ UNCHANGED <<mode, file, hist>>

\* read_hdf on a store of the caller, or on the path of the file while no
\* other store has the file open
ReadHdfOp(by_store, key, mode_arg, where, start, stop, columns, iterator, chunksize) ==
    /\ by_store \/ handle = "closed"
    /\ \E out \in {read_hdf(by_store, handle, own, file, key, mode_arg, where, start,
                             stop, columns, iterator, chunksize)} :
          /\ result' = [Call("read_hdf", key, NoObj, mode_arg, where, start, stop,
                             NoMin, out.err, out.ret, NoInt)
                           EXCEPT !.kw = [NoKw EXCEPT !.columns = columns,
                                                      !.iterator = iterator,
                                                      !.chunksize = chunksize,
                                                      !.auto_close = ~by_store]]
          /\ it' = out.it
          /\ handle' = out.handle
          /\ own' = out.own
          /\ last' = file
          /\ UNCHANGED <<mode, file, hist>>

\* ------------------------------------------------- session life cycle spec
IntSeries == MkSeries(NoName, NoName, <<0, 1>>, "int64", <<>>, <<7, 8>>)

FloatFrame ==
    MkFrame(NoName, <<0, 1>>, <<Col("A", "float64", <<>>)>>, <<<<1>>, <<NA>>>>)

LifeObjs == {IntSeries, FloatFrame}

LifeWheres == {NoWhere, [kind |-> "coords", coords |-> <<0>>]}

NextLife ==
    \/ \E m \in Modes : OpenOp(m)
    \/ CloseOp
    \/ \E k \in Keys, v \in LifeObjs, fmt \in {"fixed", "table"} :
          PutOp(k, v, fmt, NoMin, NoCols, NoInt, FALSE)
    \/ \E k \in Keys : AppendOp(k, IntSeries, "table", NoMin, NoCols, NoInt, FALSE)
    \/ \E k \in Keys : SelectOp(k, NoWhere, NoInt, NoInt)
    \/ \E k \in Keys : GetOp(k)
    \/ \E k \in Keys, w \in LifeWheres : RemoveOp(k, w, NoInt, NoInt)
    \/ KeysOp
    \/ GroupsOp
    \/ \E k \in Keys : GetNodeOp(k)

SpecLife == Init /\ [][NextLife]_vars

DataOps == {"get", "select", "put", "append", "remove", "keys", "groups", "get_node"}

\* C9: on a closed store is_open is False, every data operation raises
\* ClosedFileError and leaves the file as it was, and close() on a closed
\* store returns normally and leaves it closed.
C9_ClosedStoreRaises ==
    /\ (result.op = "close" => handle = "closed" /\ result.err = "none" /\ file = last)
    /\ (handle = "closed" /\ result.op \in DataOps
            => result.err = "ClosedFileError" /\ file = last)

\* C10: open(mode='w') on an open store raises PossibleDataLossError and
\* leaves the handle, the mode and the file content unchanged, whatever the
\* mode the store was opened with.
C10_ReopenForWriteRaises ==
    [][(handle = "open" /\ result'.op = "open" /\ result'.format = "w")
          => (/\ result'.err = "PossibleDataLossError"
              /\ handle' = handle /\ mode' = mode /\ file' = file)]_vars

\* ------------------------------------------- appends with the same schema
\* a frame of n rows with a float column A and an integer column B, the index
\* starting at first; swapped gives the columns in the order B, A
AppendFrame(n, first, swapped) ==
    MkFrame(NoName, [i \in 1..n |-> first + i - 1],
            IF swapped THEN <<Col("B", "int64", <<>>), Col("A", "float64", <<>>)>>
            ELSE <<Col("A", "float64", <<>>), Col("B", "int64", <<>>)>>,
            [i \in 1..n |->
                IF swapped THEN <<10 + first + i, IF i = 2 THEN NA ELSE first + i>>
                ELSE <<IF i = 2 THEN NA ELSE first + i, 10 + first + i>>])

\* one batch per length, those of even length with the columns swapped
AppendBatches == {AppendFrame(n, 0, n % 2 = 0) : n \in 1..MaxRows}

\* a batch whose column A has another dtype
OtherFrame ==
    MkFrame(NoName, <<9>>, <<Col("A", "int64", <<>>), Col("B", "int64", <<>>)>>,
            <<<<1, 2>>>>)

ChunkSizes == {NoInt} \cup 1..MaxChunk

AppendDataColumns == {NoCols, <<"B">>}

NextAppend ==
    \/ \E k \in Keys, v \in AppendBatches, dc \in AppendDataColumns :
          PutOp(k, v, "table", NoMin, dc, NoInt, FALSE)
    \/ \E k \in Keys, v \in AppendBatches \cup {OtherFrame}, c \in ChunkSizes :
          AppendOp(k, v, "table", NoMin, NoCols, c, FALSE)
    \/ \E k \in Keys : SelectOp(k, NoWhere, NoInt, NoInt)

SpecAppend == Init /\ [][NextAppend]_vars

RECURSIVE SumRows(_)
SumRows(h) == IF h = <<>> THEN 0 ELSE NRows(Head(h).value) + SumRows(Tail(h))

\* the batches of a write history, one after the other, with the columns in
\* the order of the given axis
BatchIndex(h) == Flatten([i \in DOMAIN h |-> h[i].value.idx])

BatchData(h, axis) == Flatten([i \in DOMAIN h |-> TakeCols(h[i].value, axis).data])

\* C2: after a first table-format write followed by appends of batches with
\* the schema of the first write (dropna off, any chunksize >= 1), the table
\* holds as many rows as the batches together, the rows are the rows of the
\* batches in append order, and the persisted index_cols, values_cols,
\* non_index_axes and data_columns are those of the first write.
C2_AppendsAccumulate ==
    \A k \in Keys :
        hist[k] # <<>> =>
            /\ file[k].kind = "table"
            /\ Len(file[k].rows) = SumRows(hist[k])
            /\ AppendableFrameTable_read(file[k], NoWhere, NoInt, NoInt).ret.idx
                   = BatchIndex(hist[k])
            /\ AppendableFrameTable_read(file[k], NoWhere, NoInt, NoInt).ret.data
                   = BatchData(hist[k], file[k].non_index_axes)
            /\ SchemaAttrs(file[k]) = hist[k][1].attrs

\* three batches written, the second with the columns in another order, the
\* last one longer than the chunk size allows in one chunk
C2_Witness ==
    \E k \in Keys :
        /\ Len(hist[k]) = 3
        /\ result.op = "append" /\ result.err = "none"
        /\ Labels(hist[k][2].value) # Labels(hist[k][1].value)
        /\ NRows(hist[k][3].value) = 3
        /\ file[k].data_columns = <<"B">>
        /\ Len(file[k].rows) >= 5

\* ------------------------------------------------ appends of another dtype
\* a two-row frame with a column A of the given dtype; a string cell is the
\* length of the string
SchemaFrame1(d) ==
    MkFrame(NoName, <<0, 1>>, <<Col("A", d, <<>>)>>, <<<<1>>, <<0>>>>)

\* a two-row frame with the columns A and B of the given dtypes
SchemaFrame2(d1, d2) ==
    MkFrame(NoName, <<0, 1>>, <<Col("A", d1, <<>>), Col("B", d2, <<>>)>>,
            <<<<1, 0>>, <<0, 1>>>>)

SchemaFrames ==
    {SchemaFrame1(d) : d \in {"float64", "int64", "bool", "object"}}
      \cup {SchemaFrame2(d1, d2) : d1, d2 \in {"float64", "int64"}}

NextSchema ==
    \/ \E k \in Keys, v \in SchemaFrames : PutOp(k, v, "table", NoMin, NoCols, NoInt, FALSE)
    \/ \E k \in Keys, v \in SchemaFrames : AppendOp(k, v, "table", NoMin, NoCols, NoInt, FALSE)
    \/ \E k \in Keys : SelectOp(k, NoWhere, NoInt, NoInt)

SpecSchema == Init /\ [][NextSchema]_vars

\* the dtype a table persists for the column with the given label
DtypeOf(node, label) ==
    ReadDtype(node.cols[CHOOSE k \in DOMAIN node.cols :
                            label \in Range(node.cols[k].values)])

\* some column of x is a column of the table with another dtype
DtypeDiffers(node, x) ==
    /\ node.kind = "table"
    /\ \E j \in DOMAIN x.cols :
          /\ x.cols[j].label \in Range(node.non_index_axes)
          /\ x.cols[j].dtype # DtypeOf(node, x.cols[j].label)

\* C3: appending to an existing table a batch in which some value column's
\* dtype differs from the persisted dtype raises ValueError and leaves the
\* table as it was.
C3_DtypeConflictRaises ==
    (result.op = "append" /\ DtypeDiffers(last[result.key], result.value))
        => (result.err = "ValueError" /\ file = last)

\* ------------------------------------------------- string columns: widths
\* a one-row frame with a string column s holding a string of the given length
StrFrame(len) == MkFrame(NoName, <<0>>, <<Col("s", "object", <<>>)>>, <<<<len>>>>)

StrFrames == {StrFrame(ShortLen), StrFrame(LongLen)}

\* min_itemsize=None and min_itemsize={"s": LongLen}
WideMin == [key |-> "s", size |-> LongLen]

StringMins == {NoMin, WideMin}

NextString ==
    \/ \E k \in Keys, v \in StrFrames, mi \in StringMins :
          PutOp(k, v, "table", mi, NoCols, NoInt, FALSE)
    \/ \E k \in Keys, v \in StrFrames, mi \in StringMins :
          AppendOp(k, v, "table", mi, NoCols, NoInt, FALSE)
    \/ \E k \in Keys : SelectOp(k, NoWhere, NoInt, NoInt)

SpecString == Init /\ [][NextString]_vars

\* the on-disk width of the string column of a one-column table
StrWidth(node) == node.cols[1].itemsize

\* the longest string of a batch
MaxStr(x) == SeqMax(Flatten(x.data))

\* the call was an append of a batch with a string of length LongLen to a
\* table whose string column has the width ShortLen
LongIntoShort ==
    /\ result.op = "append"
    /\ last[result.key].kind = "table"
    /\ StrWidth(last[result.key]) = ShortLen
    /\ MaxStr(result.value) = LongLen

\* no string is stored truncated: every table reads back the strings of the
\* batches written to it
NoTruncation ==
    \A k \in Keys :
        hist[k] # <<>> =>
            AppendableFrameTable_read(file[k], NoWhere, NoInt, NoInt).ret.data
                = BatchData(hist[k], file[k].non_index_axes)

\* C5 (as claimed): appending a length-10 string to a string column first
\* written with maximum length 5 raises and stores nothing without
\* min_itemsize, and succeeds with min_itemsize={col: 10}, the width being
\* >= 10 afterwards; no string is stored truncated.
C5_StringSizeGuard ==
    /\ (LongIntoShort /\ result.mi = NoMin
            => result.err = "ValueError" /\ file = last)
    /\ (LongIntoShort /\ result.mi = WideMin
            => result.err = "none" /\ StrWidth(file[result.key]) >= LongLen)
    /\ NoTruncation

\* C5 (amended): appending a length-10 string to a string column of width 5
\* raises ValueError and stores nothing, with or without min_itemsize; a
\* table first written with min_itemsize={col: 10} has a column of width
\* >= 10, and a column that wide takes the length-10 string on an append
\* without min_itemsize; no string is stored truncated.
C5_StringSizeGuardAmended ==
    /\ (LongIntoShort => result.err = "ValueError" /\ file = last)
    /\ (result.op \in {"put", "append"} /\ result.err = "none"
          /\ (result.op = "put" \/ last[result.key].kind # "table")
          /\ result.mi = WideMin
            => StrWidth(file[result.key]) >= LongLen)
    /\ (result.op = "append" /\ last[result.key].kind = "table"
          /\ StrWidth(last[result.key]) >= LongLen /\ result.mi = NoMin
            => /\ result.err = "none"
               /\ StrWidth(file[result.key]) >= LongLen
               /\ Len(file[result.key].rows) = Len(last[result.key].rows) + 1)
    /\ NoTruncation

\* the append of the long string with min_itemsize={col: 10} to the column
\* of width 5 has raised
C5_Witness ==
    LongIntoShort /\ result.mi = WideMin /\ result.err = "ValueError" /\ file = last

\* ---------------------------------------------- categorical columns
\* a two-row frame with a categorical column A over the given categories; a
\* cell is the code of its category, NA the code of a missing value
CatFrame(cats) ==
    MkFrame(NoName, <<0, 1>>, <<Col("A", "category", cats)>>,
            <<<<IF cats = <<>> THEN NA ELSE 0>>, <<NA>>>>)

CatSets == {<<>>, <<1>>, <<2>>, <<1, 2>>}

CatFrames == {CatFrame(c) : c \in CatSets}

NextCategorical ==
    \/ \E k \in Keys, v \in CatFrames :
          PutOp(k, v, "table", NoMin, NoCols, NoInt, FALSE)
    \/ \E k \in Keys, v \in CatFrames :
          AppendOp(k, v, "table", NoMin, NoCols, NoInt, FALSE)
    \/ \E k \in Keys : SelectOp(k, NoWhere, NoInt, NoInt)

SpecCategorical == Init /\ [][NextCategorical]_vars

\* C8: appending to an existing table a categorical batch whose categories
\* differ from the categories persisted for the column raises ValueError,
\* for every pair of differing category sets, an empty one included.
C8_CategoryConflictRaises ==
    (/\ result.op = "append"
     /\ last[result.key].kind = "table"
     /\ last[result.key].cols[1].meta = "category"
     /\ result.value.cols[1].cats # ReadCats(last[result.key], 1))
        => result.err = "ValueError"

\* ------------------------------------------------------- removal of rows
\* the frame remove() is tried on: MaxDelRows rows with the index 0, 1, ...
\* and an integer column A
DelFrame ==
    MkFrame(NoName, [i \in 1..MaxDelRows |-> i - 1], <<Col("A", "int64", <<>>)>>,
            [i \in 1..MaxDelRows |-> <<10 + i>>])

Coords(c) == [kind |-> "coords", coords |-> c]

Term(field, op, v) == [kind |-> "term", field |-> field, op |-> op, v |-> v]

DelWheres ==
    {Coords(<<0>>), Coords(<<1, 5>>), Coords(<<5, 1>>), Coords(<<2, 3>>),
     Term("index", ">=", 3), Term("index", "==", 0), Term("A", "<", 13)}

NextDelete ==
    \/ \E k \in Keys : PutOp(k, DelFrame, "table", NoMin, AllCols, NoInt, FALSE)
    \/ \E k \in Keys, w \in DelWheres : RemoveOp(k, w, NoInt, NoInt)
    \/ \E k \in Keys : SelectOp(k, NoWhere, NoInt, NoInt)

SpecDelete == Init /\ [][NextDelete]_vars

\* the coordinates a where selects in a table
Selected(node, where) ==
    Range(select_coords(node, where, Selection_init(node, where, NoInt, NoInt),
                        NoInt, NoInt))

\* the rows of a table without the rows at the given coordinates
Without(rows, coordinates) ==
    LET keep == SelectSeq(Positions(Len(rows)), LAMBDA i : (i - 1) \notin coordinates)
    IN  [k \in DOMAIN keep |-> rows[keep[k]]]

\* C4: remove(key, where) on an n-row table removes exactly the rows at the
\* k selected coordinates: n - k rows remain, no other row is removed, and
\* the remaining rows keep their relative order.
C4_RemoveExactlySelected ==
    (/\ result.op = "remove"
     /\ result.where.kind \in {"coords", "term"}
     /\ last[result.key].kind = "table"
     /\ Selected(last[result.key], result.where) \subseteq
            0..(Len(last[result.key].rows) - 1))
        => /\ result.err = "none"
           /\ file[result.key].kind = "table"
           /\ Len(file[result.key].rows) =
                 Len(last[result.key].rows)
                   - Cardinality(Selected(last[result.key], result.where))
           /\ file[result.key].rows =
                 Without(last[result.key].rows,
                         Selected(last[result.key], result.where))

\* ------------------------------------------------ selection by predicate
\* a frame of n rows with the index 0, 1, ..., a float column A (missing in
\* row 3) and a string column s (missing in row 2)
SelFrame(n) ==
    MkFrame(NoName, [i \in 1..n |-> i - 1],
            <<Col("A", "float64", <<>>), Col("s", "object", <<>>)>>,
            [i \in 1..n |-> <<IF i = 3 THEN NA ELSE i, IF i = 2 THEN NA ELSE ShortLen>>])

SelFrames == {SelFrame(n) : n \in 1..MaxRows}

\* predicates on the index and on the data columns; the string "nan" is the
\* string of length NanLen
SelTerms ==
    {Term("index", ">=", 1), Term("index", "<", 2), Term("A", ">=", 2),
     Term("A", "!=", 1), Term("s", "==", ShortLen), Term("s", "!=", ShortLen),
     Term("s", "==", NanLen), Term("s", "!=", NanLen)}

NextSelect ==
    \/ \E k \in Keys, v \in SelFrames : PutOp(k, v, "table", NoMin, AllCols, NoInt, FALSE)
    \/ \E k \in Keys, v \in SelFrames : AppendOp(k, v, "table", NoMin, AllCols, NoInt, FALSE)
    \/ \E k \in Keys, w \in SelTerms : SelectOp(k, w, NoInt, NoInt)

SpecSelect == Init /\ [][NextSelect]_vars

\* the rows of a frame at the given positions
TakeRows(df, takers) ==
    [df EXCEPT !.idx = [k \in DOMAIN takers |-> df.idx[takers[k]]],
               !.data = [k \in DOMAIN takers |-> df.data[takers[k]]]]

\* the value a predicate on the field looks at in row i of a frame
ValueAt(df, field, i) ==
    IF field = "index" THEN df.idx[i] ELSE df.data[i][IndexOf(Labels(df), field)]

\* the frame filtered in memory with the predicate
FilterInMemory(df, w) ==
    TakeRows(df, SelectSeq(Positions(NRows(df)),
                           LAMBDA i : Compare(ValueAt(df, w.field, i), w.op, w.v)))

\* the rows of the frame that hold a missing value in the field (for ==), or
\* that do not (for !=)
FilterMissing(df, w) ==
    TakeRows(df, SelectSeq(Positions(NRows(df)),
                           LAMBDA i : (ValueAt(df, w.field, i) = NA) = (w.op = "==")))

\* the whole table read without a predicate
FullRead(node) == AppendableFrameTable_read(node, NoWhere, NoInt, NoInt).ret

\* the call was a select with a predicate on a stored table
TermSelected ==
    /\ result.op = "select"
    /\ result.where.kind = "term"
    /\ file[result.key].kind = "table"

RtDtypes == {"object", "int64", "float64", "bool", "datetime64[ns]",
             "timedelta64[ns]", "category", "complex128"}

\* the cell of row i of a column of the given dtype: row 2 is missing where
\* the dtype has a missing value; a categorical cell is the code of its
\* category
RtCell(d, i) ==
    CASE d = "object" -> IF i = 2 THEN NA ELSE ShortLen
      [] d = "int64" -> i
      [] d = "bool" -> i % 2
      [] d = "category" -> IF i = 2 THEN NA ELSE 0
      [] OTHER -> IF i = 2 THEN NA ELSE i

RtCats(d) == IF d = "category" THEN <<7>> ELSE <<>>

RtSeries(d, name, n) ==
    MkSeries(name, NoName, [i \in 1..n |-> i - 1], d, RtCats(d),
             [i \in 1..n |-> RtCell(d, i)])

RtFrame(d, n) ==
    MkFrame(NoName, [i \in 1..n |-> i - 1],
            <<Col("A", d, RtCats(d)), Col("B", "int64", <<>>)>>,
            [i \in 1..n |-> <<RtCell(d, i), 10 + i>>])

\* objects with rows: every dtype as a Series and in a frame, and a Series
\* for each kind of name
RtObjects ==
    {RtSeries(d, NoName, MaxRows) : d \in RtDtypes}
      \cup {RtFrame(d, MaxRows) : d \in RtDtypes}
      \cup {RtSeries("float64", name, MaxRows) : name \in {"x", ValuesName}}

\* objects whose row axis has length zero
RtEmpty ==
    {RtSeries(d, NoName, 0) : d \in {"object", "int64", "float64", "category"}}
      \cup {RtFrame(d, 0) : d \in {"object", "int64", "float64", "category"}}

Formats == {"fixed", "table"}

NextRoundTrip ==
    \/ \E k \in Keys, v \in RtObjects \cup RtEmpty, fmt \in Formats :
          PutOp(k, v, fmt, NoMin, NoCols, NoInt, FALSE)
    \/ \E k \in Keys, v \in RtEmpty, fmt \in Formats :
          AppendOp(k, v, fmt, NoMin, NoCols, NoInt, FALSE)
    \/ \E k \in Keys : SelectOp(k, NoWhere, NoInt, NoInt)

SpecRoundTrip == Init /\ [][NextRoundTrip]_vars

\* this step is a select without predicate of the key the call before it
\* wrote with the given operation
ReadsBack(ops) ==
    /\ result.op \in ops
    /\ result'.op = "select"
    /\ result'.key = result.key
    /\ result'.where = NoWhere

\* C1: put(key, x, format) followed by select(key) returns an object equal
\* to x, labels and names included, a stored missing-value sentinel counting
\* as missing: checked for every x with rows that put has stored without
\* an error, in both formats.
C1_RoundTrip ==
    [][(ReadsBack({"put"}) /\ result.err = "none" /\ ~IsEmpty(result.value))
          => (/\ result'.err = "none"
              /\ AsMissing(result'.ret) = AsMissing(result.value))]_vars

\* the object has a row axis of length zero
ZeroRows(x) == x.typ # "none" /\ NRows(x) = 0

HasCategory(x) == \E j \in DOMAIN x.cols : x.cols[j].dtype = "category"

\* C7 (as claimed): writing an object whose row axis has length zero, with
\* put or append and in either format, and then reading the key back returns
\* an object of the same empty shape and the same dtypes, without an error.
C7_EmptyRoundTrip ==
    [][(ReadsBack({"put", "append"}) /\ ZeroRows(result.value))
          => (/\ result.err = "none"
              /\ result'.err = "none"
              /\ result'.ret = result.value)]_vars

\* C7 (amended): put with format='fixed' of a zero-row object without a
\* categorical column, then reading the key back, returns an object of the
\* same empty shape and dtypes without an error; put with format='table'
\* and append store nothing for a zero-row object and raise no error (the
\* put still removes the node stored under the key), so that a select after
\* such a put raises KeyError.
C7_EmptyRoundTripAmended ==
    [][/\ (ReadsBack({"put"}) /\ ZeroRows(result.value) /\ result.format = "fixed"
             /\ ~HasCategory(result.value)
               => (/\ result.err = "none"
                   /\ result'.err = "none"
                   /\ result'.ret = result.value))
       /\ (result'.op \in {"put", "append"} /\ ZeroRows(result'.value)
             /\ (result'.format = "table" \/ result'.op = "append")
               => (/\ result'.err = "none"
                   /\ file' = IF result'.op = "put"
                              THEN [file EXCEPT ![result'.key] = NoNode]
                              ELSE file))
       /\ (ReadsBack({"put"}) /\ ZeroRows(result.value) /\ result.format = "table"
               => result'.err = "KeyError")]_vars

\* a select has returned the zero-row integer Series stored in the fixed
\* format
C7_Witness ==
    /\ result.op = "select" /\ result.err = "none"
    /\ file[result.key].kind = "fixed"
    /\ result.ret = RtSeries("int64", NoName, 0)

\* ------------------------------------------- removal of rows and of nodes
\* one more row for the table of DelFrame, and a row whose column A has
\* another dtype
RemBatch == MkFrame(NoName, <<9>>, <<Col("A", "int64", <<>>)>>, <<<<19>>>>)

RemOther == MkFrame(NoName, <<9>>, <<Col("A", "float64", <<>>)>>, <<<<19>>>>)

RemWheres ==
    {NoWhere, Coords(<<1, 1>>), Coords(<<1, 5>>), Coords(<<5, 1>>),
     Term("index", ">=", 0), Term("A", "<", 13)}

RemStarts == {NoInt, 0}

RemStops == {NoInt, 4}

NextRemove ==
    \/ \E k \in Keys : PutOp(k, DelFrame, "table", NoMin, AllCols, NoInt, FALSE)
    \/ \E k \in Keys : PutOp(k, IntSeries, "fixed", NoMin, NoCols, NoInt, FALSE)
    \/ \E k \in Keys, v \in {RemBatch, RemOther} :
          AppendOp(k, v, "table", NoMin, AllCols, NoInt, FALSE)
    \/ \E k \in Keys, w \in RemWheres, a \in RemStarts, b \in RemStops :
          RemoveOp(k, w, a, b)
    \/ \E k \in Keys : SelectOp(k, NoWhere, NoInt, NoInt)
    \/ \E k \in Keys : GetOp(k)
    \/ KeysOp

SpecRemove == Init /\ [][NextRemove]_vars

\* the last call was a remove that returned normally
Removed == result.op = "remove" /\ result.err = "none"

\* the remove was given no where, no start and no stop
RemovedAll ==
    Removed /\ _ensure_term(result.where) = NoWhere
            /\ result.start = NoInt /\ result.stop = NoInt

RowsOf(node) == IF node.kind = "table" THEN Len(node.rows) ELSE 0

\* C11: remove on a key stored as a table returns the number of rows it
\* removed from the table, and returns None only when the key is not a table.
C11_RemoveReturnsCount ==
    (Removed /\ last[result.key].kind = "table")
        => /\ result.n # NoInt
           /\ result.n = RowsOf(last[result.key]) - RowsOf(file[result.key])

\* the coordinates a remove or a select with these arguments works on
SelectedIn(node, where, start, stop) ==
    Range(select_coords(node, _ensure_term(where),
                        Selection_init(node, _ensure_term(where), start, stop),
                        start, stop))

\* C12: remove(key) without where, start and stop removes the whole node:
\* the key is absent afterwards, get and select on it raise KeyError, keys()
\* does not list it, and a later put or append in the table format creates
\* a fresh table from the object alone, whatever the removed table's schema.
C12_RemoveNode ==
    [][/\ RemovedAll' => file'[result'.key] = NoNode
       /\ (RemovedAll /\ result'.key = result.key /\ result'.op \in {"get", "select"})
             => (result'.err = "KeyError" /\ file' = file)
       /\ (RemovedAll /\ result'.op = "keys") => result.key \notin result'.ks
       /\ (RemovedAll /\ result'.key = result.key /\ result'.op \in {"put", "append"}
             /\ result'.format = "table")
             => (/\ result'.err = "none"
                 /\ file'[result.key].kind = "table"
                 /\ Len(file'[result.key].rows) = NRows(result'.value)
                 /\ ~DtypeDiffers(file'[result.key], result'.value))]_vars

\* a table was removed as a whole
C12_Witness ==
    RemovedAll /\ last[result.key].kind = "table" /\ file[result.key] = NoNode

\* the last call was a remove with a where, a start or a stop that selected
\* every row of a table
RemovedEvery ==
    /\ Removed /\ ~RemovedAll
    /\ last[result.key].kind = "table"
    /\ SelectedIn(last[result.key], result.where, result.start, result.stop)
          = 0..(Len(last[result.key].rows) - 1)

\* C13: a remove with a predicate or a start/stop range that matches every
\* row leaves the table node in place with zero rows and everything else of
\* the node unchanged: keys() still lists the key, select returns an object
\* of zero rows, and a later append is validated against the retained schema
\* (a batch of another dtype raises ValueError and stores nothing, a batch of
\* the same schema is appended).
C13_EveryRowRemoved ==
    [][/\ RemovedEvery' =>
             file'[result'.key] = [last'[result'.key] EXCEPT !.rows = <<>>]
       /\ (RemovedEvery /\ result'.op = "keys") => result.key \in result'.ks
       /\ (RemovedEvery /\ result'.key = result.key /\ result'.op \in {"get", "select"})
             => (/\ result'.err = "none"
                 /\ result'.ret.typ = "frame"
                 /\ NRows(result'.ret) = 0
                 /\ Labels(result'.ret) = file[result.key].non_index_axes)
       /\ (RemovedEvery /\ result'.key = result.key /\ result'.op = "append")
             => IF DtypeDiffers(file[result.key], result'.value)
                THEN result'.err = "ValueError" /\ file' = file
                ELSE /\ result'.err = "none"
                     /\ Len(file'[result.key].rows) = NRows(result'.value)
                     /\ SchemaAttrs(file'[result.key]) = SchemaAttrs(file[result.key])]_vars

\* every row of a non-empty table was removed by a predicate
C13_Witness ==
    /\ RemovedEvery
    /\ result.where.kind = "term"
    /\ Len(last[result.key].rows) > 0
    /\ file[result.key].kind = "table"

\* the maximal runs of consecutive numbers of a set, the highest run first,
\* each as the <<start, stop>> of the half-open range that covers it
RECURSIVE RunsDescending(_)
RunsDescending(S) ==
    IF S = {} THEN <<>>
    ELSE LET hi == CHOOSE x \in S : \A y \in S : y <= x
             lo == CHOOSE x \in S : /\ \A y \in x..hi : y \in S
                                    /\ (x - 1) \notin S
         IN  <<<<lo, hi + 1>>>> \o RunsDescending(S \ (lo..hi))

\* C20: delete with a predicate issues exactly one remove_rows(start, stop)
\* call per maximal run of consecutive selected coordinates, the runs visited
\* in descending order, each call covering exactly its run.
C20_OneCallPerRun ==
    (/\ Removed
     /\ _ensure_term(result.where) # NoWhere
     /\ last[result.key].kind = "table")
        => result.calls =
              RunsDescending(SelectedIn(last[result.key], result.where,
                                        result.start, result.stop))

\* ------------------------------------------------- selection coordinates
Mask(m) == [kind |-> "mask", mask |-> m]

\* a boolean mask of the given length that selects every other row
EveryOther(n) == Mask([i \in 1..n |-> i % 2 = 1])

CoordWheres ==
    {NoWhere, Coords(<<1, 5>>), Coords(<<5, 1>>), Coords(<<1, 1>>),
     EveryOther(MaxDelRows), EveryOther(4),
     Term("index", ">=", 3), Term("A", "<", 13)}

CoordStarts == {NoInt, 0, 2}

CoordStops == {NoInt, 4}

CoordRemoves == {Term("index", ">=", 3), Coords(<<0>>)}

NextCoords ==
    \/ \E k \in Keys : PutOp(k, DelFrame, "table", NoMin, AllCols, NoInt, FALSE)
    \/ \E k \in Keys : PutOp(k, IntSeries, "fixed", NoMin, NoCols, NoInt, FALSE)
    \/ \E k \in Keys, w \in CoordRemoves :
          RemoveOp(k, w, NoInt, NoInt)
    \/ \E k \in Keys, w \in CoordWheres, a \in CoordStarts, b \in CoordStops :
          SelectAsCoordinatesOp(k, w, a, b)

SpecCoords == Init /\ [][NextCoords]_vars

\* the number of times a value occurs in a sequence
Count(seq, v) == Cardinality({i \in DOMAIN seq : seq[i] = v})

\* C18: the coordinates select_coords returns are in ascending order for
\* every kind of where (none, boolean mask, coordinate list, expression),
\* and a coordinate list keeps its duplicates.
C18_CoordsAscending ==
    (result.op = "select_as_coordinates" /\ result.err = "none")
        => /\ \A i \in 1..(Len(result.coords) - 1) :
                 result.coords[i] <= result.coords[i + 1]
           /\ result.where.kind = "coords"
                 => \A c \in Range(result.where.coords) \cup Range(result.coords) :
                       Count(result.coords, c) = Count(result.where.coords, c)

\* ------------------------------------------- select with keyword arguments
IterWheres == {NoWhere, Coords(<<>>), Coords(<<5>>), Term("index", ">=", 3)}

IterStarts == {NoInt, 1}

IterStops == {NoInt, 2}

\* <<iterator, chunksize>>: neither, iterator=True, chunksize=0 and a
\* positive chunksize
IterModes == {<<FALSE, NoInt>>, <<TRUE, NoInt>>, <<FALSE, 0>>, <<FALSE, MaxChunk>>}

\* the arguments <<where, start, stop, columns, <<iterator, chunksize>>>> of
\* the selects tried
IterArgs ==
    {<<w, a, b, NoCols, m>> :
        w \in IterWheres, a \in IterStarts, b \in IterStops, m \in IterModes}
    \cup {<<NoWhere, NoInt, NoInt, c, <<FALSE, NoInt>>>> : c \in {<<>>, <<"A">>}}
    \cup {<<Term("index", ">=", 3), NoInt, NoInt, <<"A">>, <<FALSE, MaxChunk>>>>}

\* the coordinate list [5]
LastCoord == Coords(<<5>>)

NextIter ==
    \/ \E k \in Keys : PutOp(k, DelFrame, "table", NoMin, AllCols, NoInt, FALSE)
    \/ \E k \in Keys : PutOp(k, IntSeries, "fixed", NoMin, NoCols, NoInt, FALSE)
    \/ \E k \in Keys, x \in IterArgs :
          SelectKwOp(k, x[1], x[2], x[3], x[4], x[5][1], x[5][2])
    \/ IterNextOp
    \/ \E k \in Keys : GetOp(k)
    \/ \E k \in Keys, a \in IterStarts, b \in IterStops :
          SelectAsCoordinatesOp(k, LastCoord, a, b)
    \/ \E k \in Keys, a \in IterStarts :
          RemoveOp(k, LastCoord, a, 2)

SpecIter == Init /\ [][NextIter]_vars

\* a pass through the loop of the iterator that read a chunk
ChunkRead ==
    /\ it.state = "active" /\ it.current < it.stop
    /\ result'.op = "next" /\ result'.err = "none"

\* C17: chunked iteration terminates: every pass through the loop that reads
\* a chunk moves the position forward inside [start, stop), and the chunk it
\* reads holds the at most chunksize coordinates found at the positions it
\* passed.
C17_ChunkedIterationAdvances ==
    [][ChunkRead
         => /\ it'.current > it.current
            /\ it.start <= it.current /\ it'.current <= it.stop
            /\ Len(result'.coords) <= it.chunksize
            /\ result'.coords = Slice(it.coordinates, it.current, it'.current)]_vars

\* a select on a key stored in the fixed format
FixedSelect == result.op = "select" /\ last[result.key].kind = "fixed"

\* the select was refused: TypeError, nothing returned, nothing changed
Refused ==
    /\ result.err = "TypeError" /\ result.ret = NoObj /\ it = NoIter
    /\ file = last

\* C14 (as claimed): select on a fixed-format node raises TypeError whenever
\* a where that is not None or a column list that is not None is passed, and
\* whenever an iterator or a chunksize is asked for; nothing is returned and
\* the stored object is unchanged.
C14_FixedRejectsSelection ==
    (/\ FixedSelect
     /\ \/ result.where # NoWhere
        \/ result.kw.columns # NoCols
        \/ result.kw.iterator
        \/ result.kw.chunksize # NoInt)
        => Refused

\* C14 (amended): select on a fixed-format node raises TypeError whenever a
\* where other than None and the empty list, or a column list that is not
\* None (the empty list included), is passed, and whenever an iterator or a
\* chunksize is asked for; nothing is returned and the stored object is
\* unchanged.  With an empty list as the where and none of the other
\* arguments the whole object is returned, as get returns it.
C14_FixedRejectsSelectionAmended ==
    /\ (/\ FixedSelect
        /\ \/ _ensure_term(result.where) # NoWhere
           \/ result.kw.columns # NoCols
           \/ result.kw.iterator
           \/ result.kw.chunksize # NoInt)
           => Refused
    /\ (/\ FixedSelect
        /\ _ensure_term(result.where) = NoWhere
        /\ result.kw = NoKw /\ result.start = NoInt /\ result.stop = NoInt)
           => (/\ result.err = "none"
               /\ result.ret = HDFStore_get(handle, file, result.key).ret
               /\ result.ret # NoObj)

\* a select with a predicate on a fixed-format node was refused
C14_Witness ==
    /\ FixedSelect /\ Refused
    /\ result.where.kind = "term" /\ result.kw = NoKw

\* some coordinate lies outside [start, stop), None being no bound
OutOfRange(coords, start, stop) ==
    \E i \in DOMAIN coords : \/ (start # NoInt /\ coords[i] < start)
                             \/ (stop # NoInt /\ coords[i] >= stop)

\* C19: a coordinate list with a coordinate outside [start, stop) makes
\* select, select_as_coordinates and remove raise ValueError; no rows are
\* read or removed.
C19_OutOfRangeCoordinates ==
    (/\ result.op \in {"select", "select_as_coordinates", "remove"}
     /\ last[result.key].kind = "table"
     /\ result.where.kind = "coords"
     /\ OutOfRange(result.where.coords, result.start, result.stop))
        => (/\ result.err = "ValueError"
            /\ result.ret = NoObj /\ result.coords = NoList /\ result.n = NoInt
            /\ result.op = "select" => it = NoIter
            /\ file = last)

\* ----------------------------------------------------------------- read_hdf
\* a file that may hold two datasets
TwoKeys == {"b", "df"}

\* HDFStore(path, mode) on a path that holds no file yet, for TwoKeys
InitTwo ==
    /\ handle = "open"
    /\ mode = "a"
    /\ file = [k \in TwoKeys |-> NoNode]
    /\ result = NoCall
    /\ last = [k \in TwoKeys |-> NoNode]
    /\ hist = [k \in TwoKeys |-> <<>>]
    /\ it = NoIter
    /\ own = "none"

\* a mask of three rows, too long for the two-row tables written here
RhWheres == {NoWhere, Mask(<<TRUE, FALSE, TRUE>>), Mask(<<FALSE, TRUE>>)}

RhChunks == {NoInt, 1}

\* the table written: two rows with a categorical column
RhFrame == CatFrame(<<1, 2>>)

NextReadHdf ==
    \/ OpenOp("a")
    \/ CloseOp
    \/ \E k \in TwoKeys : PutOp(k, RhFrame, "table", NoMin, NoCols, NoInt, FALSE)
    \/ \E k \in TwoKeys : PutOp(k, IntSeries, "fixed", NoMin, NoCols, NoInt, FALSE)
    \/ \E k \in TwoKeys : RemoveOp(k, NoWhere, NoInt, NoInt)
    \/ \E s \in BOOLEAN, k \in TwoKeys \cup {NoName}, m \in {"r", "w"},
          w \in RhWheres, c \in RhChunks :
          ReadHdfOp(s, k, m, w, NoInt, NoInt, NoCols, FALSE, c)
    \/ IterNextOp
    \/ IterAgainOp

SpecReadHdf == InitTwo /\ [][NextReadHdf]_vars

\* the keys that hold a pandas object
Datasets(f) == {k \in DOMAIN f : f[k] # NoNode}

\* read_hdf got as far as looking for the key: the mode is one for reading
\* and a store passed in is open
ReadHdfNoKey ==
    /\ result.op = "read_hdf" /\ result.key = NoName
    /\ result.format \in {"r", "r+", "a"}
    /\ result.err # "IOError"

\* C15: read_hdf without a key reads the only dataset of a file that holds
\* exactly one pandas object, the groups under its meta/ path not counted,
\* and raises ValueError for a file with no dataset or with several.
C15_ReadHdfOnlyDataset ==
    ReadHdfNoKey =>
        IF Cardinality(Datasets(file)) = 1
        THEN LET k == CHOOSE k \in Datasets(file) : TRUE
                 r == HDFStore_select_kw("open", file, k, result.where, result.start,
                                         result.stop, result.kw.columns,
                                         result.kw.iterator, result.kw.chunksize,
                                         result.kw.auto_close,
                                         IF result.kw.auto_close THEN "own"
                                         ELSE "caller")
             IN  /\ result.err = r.err /\ result.ret = r.ret /\ it = r.it
                 /\ (result.where = NoWhere /\ result.kw.chunksize = NoInt)
                       => (result.err = "none" /\ result.ret # NoObj)
        ELSE result.err = "ValueError" /\ result.ret = NoObj /\ it = NoIter

\* read_hdf without a key returned the categorical table of a file whose only
\* other group holds the categories under meta/
C15_Witness ==
    /\ ReadHdfNoKey /\ result.err = "none"
    /\ HasCategory(result.ret)
    /\ Len(HDFStore_groups(file)) = 2

\* C16: a store that read_hdf opened itself is closed when read_hdf returns
\* an object, when read_hdf raises, and when the iterator it returned is
\* exhausted; a store passed in by the caller is never closed by read_hdf nor
\* by the iterator it returns.
C16_OwnStoreClosed ==
    [][/\ (/\ result'.op = "read_hdf" /\ result'.kw.auto_close
           /\ result'.format \in {"r", "r+", "a"}
           /\ (result'.err # "none" \/ it' = NoIter))
              => own' = "closed"
       /\ (result'.op = "next" /\ it.store = "own" /\ it'.state = "done")
              => own' = "closed"
       /\ (result'.op = "read_hdf" /\ ~result'.kw.auto_close) => handle' = handle
       /\ (result'.op = "next" /\ it.store = "caller") => handle' = handle]_vars

\* ---------------------------------------------------------- a put that raises
\* C21: a put that raises leaves the object stored under the key before the
\* call readable and unchanged, and adds no key to the store.
C21_FailedPutKeepsObject ==
    [][(result'.op = "put" /\ result'.err # "none") =>
          /\ HDFStore_keys("open", file').ks \subseteq HDFStore_keys("open", file).ks
          /\ result'.key \in HDFStore_keys("open", file).ks =>
                HDFStore_get("open", file', result'.key)
                    = HDFStore_get("open", file, result'.key)]_vars

\* --------------------------------------------- the batches of a chunked select
RECURSIVE IterBatches(_, _, _, _)
\* the batches the iterator yields when it is run to its end, n passes
\* through its loop at most
IterBatches(t, h, f, n) ==
    IF t.state # "active" \/ n = 0 THEN <<>>
    ELSE LET out == TableIterator_iter(t, h, f)
         IN  (IF out.err = "none" /\ out.ret # NoObj THEN <<out.ret>> ELSE <<>>)
                 \o IterBatches(out.it, h, f, n - 1)

\* the same select without iterator and chunksize
WholeSelect ==
    HDFStore_select_kw(handle, file, result.key, result.where, result.start,
                       result.stop, result.kw.columns, FALSE, NoInt, FALSE, "caller")

\* a select has just returned an iterator with a positive chunksize
FreshIterator ==
    /\ result.op = "select" /\ result.err = "none"
    /\ it.state = "active" /\ it.chunksize >= 1

\* C22: the batches of select(key, where, start, stop, chunksize=c), in
\* order, hold exactly the rows, in the same order, that the same select
\* without chunksize returns.
C22_ChunksConcatenate ==
    (FreshIterator /\ WholeSelect.err = "none")
        => LET batches == IterBatches(it, handle, file, MaxDelRows + 1)
           IN  /\ Flatten([i \in DOMAIN batches |-> batches[i].idx])
                     = WholeSelect.ret.idx
               /\ Flatten([i \in DOMAIN batches |-> batches[i].data])
                     = WholeSelect.ret.data

\* ------------------------------------------------- the info of the row index
\* a one-row frame whose row index has the given name
InfoFrame(name) == MkFrame(name, <<0>>, <<Col("A", "int64", <<>>)>>, <<<<1>>>>)

InfoNames == {NoName, "x", "y"}

InfoFrames == {InfoFrame(n) : n \in InfoNames}

NextInfo ==
    \/ \E k \in Keys, v \in InfoFrames :
          PutOp(k, v, "table", NoMin, NoCols, NoInt, FALSE)
    \/ \E k \in Keys, v \in InfoFrames :
          AppendOp(k, v, "table", NoMin, NoCols, NoInt, FALSE)
    \/ \E k \in Keys : SelectOp(k, NoWhere, NoInt, NoInt)

SpecInfo == Init /\ [][NextInfo]_vars

\* the index_name recorded in the info of the table under the key, None
\* (NoName) when there is no table or no value is recorded
RecordedName(f, key) ==
    IF f[key].kind = "table" /\ f[key].info.index_name # NoAttr
    THEN f[key].info.index_name ELSE NoName

\* C23: an append never changes a recorded non-null index_name silently: a
\* batch with another index name resets it to None (the case that warns),
\* and otherwise the recorded value stays as it was.
C23_InfoKeptOrReset ==
    [][(/\ result'.op = "append" /\ result'.err = "none"
        /\ RecordedName(file, result'.key) # NoName)
          => RecordedName(file', result'.key)
                = IF result'.value.idxname \notin
                        {NoName, RecordedName(file, result'.key)}
                  THEN NoName
                  ELSE RecordedName(file, result'.key)]_vars

\* ------------------------------------------- appends with permuted columns
\* the dtype of the column with the given label in the frames tried
PermDtype(label) ==
    CASE label = "A" -> "float64"
      [] label = "s" -> "bool"
      [] OTHER -> "int64"

\* a frame of n rows with the given column labels; the cell of a column is
\* told by its label and its row
PermFrame(labels, n) ==
    MkFrame(NoName, [i \in 1..n |-> i - 1],
            [k \in DOMAIN labels |-> Col(labels[k], PermDtype(labels[k]), <<>>)],
            [i \in 1..n |->
                [k \in DOMAIN labels |->
                    IF labels[k] = "s" THEN i % 2
                    ELSE 10 * IndexOf(LabelOrder, labels[k]) + i]])

PermLabels ==
    {<<"A", "B">>, <<"B", "A">>, <<"B", "C">>, <<"C", "B">>, <<"A">>,
     <<"A", "C">>, <<"A", "B", "s">>, <<"s", "B", "A">>, <<"A", "B", "C">>}

PermDataColumns == {NoCols, <<"B">>}

\* the batches appended: one row for every label sequence, and two rows with
\* the columns B, A
PermBatches == {PermFrame(l, 1) : l \in PermLabels} \cup {PermFrame(<<"B", "A">>, 2)}

\* the frames the table is created from: one row for every label sequence
PermPuts == {PermFrame(l, 1) : l \in PermLabels}

NextPerm ==
    \/ \E k \in Keys, v \in PermPuts, dc \in PermDataColumns :
          PutOp(k, v, "table", NoMin, dc, NoInt, FALSE)
    \/ \E k \in Keys, v \in PermBatches :
          AppendOp(k, v, "table", NoMin, NoCols, NoInt, FALSE)
    \/ \E k \in Keys : SelectOp(k, NoWhere, NoInt, NoInt)

SpecPerm == Init /\ [][NextPerm]_vars

\* this step is an append of a batch to an existing table
AppendToTable ==
    /\ result'.op = "append" /\ file[result'.key].kind = "table"
    /\ ~IsEmpty(result'.value)

\* the labels of the batch are the labels of the table in some order
SameLabels(x, node) ==
    /\ Len(x.cols) = Len(node.non_index_axes)
    /\ Range(Labels(x)) = Range(node.non_index_axes)

\* C24: an append of a frame whose column labels are a permutation of the
\* table's succeeds and the table then reads back its former rows followed
\* by the rows of the batch, every value under its own label in the column
\* order of the table; an append of a frame with another label set raises
\* ValueError and changes nothing.
C24_PermutedAppend ==
    [][AppendToTable =>
          IF SameLabels(result'.value, file[result'.key])
          THEN /\ result'.err = "none"
               /\ Labels(FullRead(file'[result'.key])) = Labels(FullRead(file[result'.key]))
               /\ FullRead(file'[result'.key]).idx
                     = FullRead(file[result'.key]).idx \o result'.value.idx
               /\ FullRead(file'[result'.key]).data
                     = FullRead(file[result'.key]).data
                          \o TakeCols(result'.value,
                                      Labels(FullRead(file[result'.key]))).data
          ELSE result'.err = "ValueError" /\ file' = file]_vars

\* a batch with the labels of the table in another order was appended to a
\* table that keeps two of its columns in one block
C24_Witness ==
    /\ result.op = "append" /\ result.err = "none"
    /\ last[result.key].kind = "table"
    /\ SameLabels(result.value, last[result.key])
    /\ Labels(result.value) # last[result.key].non_index_axes
    /\ \E k \in DOMAIN last[result.key].cols : Len(last[result.key].cols[k].values) = 2
    /\ Len(file[result.key].rows) = Len(last[result.key].rows) + NRows(result.value)

\* ------------------------------------------------------- appends with dropna
\* the cells of one row of a batch with a float column A and a string column
\* s: each is missing or holds a value (a string of length 2)
DropRows == {<<a, c>> : a \in {NA, 5}, c \in {NA, 2}}

\* a two-row frame with the columns A and s
DropFrame(r1, r2) ==
    MkFrame(NoName, <<0, 1>>, <<Col("A", "float64", <<>>), Col("s", "object", <<>>)>>,
            <<r1, r2>>)

\* a two-row frame with the float columns A and B
FloatsFrame(r1, r2) ==
    MkFrame(NoName, <<0, 1>>, <<Col("A", "float64", <<>>), Col("B", "float64", <<>>)>>,
            <<r1, r2>>)

DropBatches ==
    {DropFrame(r1, <<NA, NA>>) : r1 \in DropRows}
    \cup {DropFrame(<<5, NA>>, <<NA, 2>>)}
    \cup {FloatsFrame(<<a, NA>>, <<NA, NA>>) : a \in {NA, 5}}

NextDropna ==
    \/ \E k \in Keys, v \in DropBatches, d \in BOOLEAN :
          AppendOp(k, v, "table", NoMin, NoCols, NoInt, d)
    \/ \E k \in Keys : RemoveOp(k, NoWhere, NoInt, NoInt)
    \/ \E k \in Keys : SelectOp(k, NoWhere, NoInt, NoInt)

SpecDropna == Init /\ [][NextDropna]_vars

\* the index values of the rows stored in a node
StoredIndex(node) ==
    IF node.kind = "table" THEN [i \in DOMAIN node.rows |-> node.rows[i].index]
    ELSE <<>>

\* the rows of the batch that hold a value in some column
RowsWithValue(x) ==
    SelectSeq(Positions(NRows(x)), LAMBDA i : \E j \in DOMAIN x.cols : x.data[i][j] # NA)

\* C25: with dropna=True an append writes exactly the rows of the batch that
\* hold a non-missing value in some column, whatever the kinds of the
\* columns; with dropna=False it writes every row.
C25_DropnaRows ==
    [][(/\ result'.op = "append" /\ result'.err = "none"
        /\ ~IsEmpty(result'.value))
          => StoredIndex(file'[result'.key])
                = StoredIndex(file[result'.key])
                    \o IF result'.kw.dropna
                       THEN [k \in DOMAIN RowsWithValue(result'.value) |->
                                result'.value.idx[RowsWithValue(result'.value)[k]]]
                       ELSE result'.value.idx]_vars

RowsAt(node, chunk) ==
    [idx |-> [k \in DOMAIN chunk |-> FullRead(node).idx[chunk[k] + 1]],
     data |-> [k \in DOMAIN chunk |-> FullRead(node).data[chunk[k] + 1]]]

NextContains ==
    \/ \E k \in Keys, v \in LifeObjs, fmt \in Formats :
          PutOp(k, v, fmt, NoMin, NoCols, NoInt, FALSE)
    \/ \E k \in Keys, v \in LifeObjs, fmt \in Formats :
          AppendOp(k, v, fmt, NoMin, NoCols, NoInt, FALSE)
    \/ \E k \in Keys : RemoveOp(k, NoWhere, NoInt, NoInt)
    \/ \E k \in Keys : ContainsOp(k)
    \/ \E k \in Keys : GetOp(k)
    \/ KeysOp

SpecContains == Init /\ [][NextContains]_vars

\* C28: `key in store` is True exactly when the key is one of keys(), and a
\* key for which it is True can be read with get without a TypeError.
C28_ContainsIffKey ==
    (result.op = "contains" /\ result.err = "none") =>
        /\ result.n = 1 <=> result.key \in HDFStore_keys(handle, file).ks
        /\ result.n = 1 => HDFStore_get(handle, file, result.key).err # "TypeError"

\* ------------------------------------------------------ append_to_multiple
\* DataFrame.reindex(labels, axis=1) for labels of the frame
reindex(x, labels) ==
    LET js == [k \in DOMAIN labels |-> IndexOf(Labels(x), labels[k])]
    IN  [x EXCEPT !.cols = [k \in DOMAIN js |-> x.cols[js[k]]],
                  !.data = [i \in DOMAIN x.data |->
                               [k \in DOMAIN js |-> x.data[i][js[k]]]]]

\* the split of the columns: the entry of d whose value is None gets the
\* columns of the value that no other entry names, in the order of the value
split_columns(d, value) ==
    [i \in DOMAIN d |->
        IF d[i].cols # NoCols THEN d[i]
        ELSE [key |-> d[i].key,
              cols |-> SelectSeq(Labels(value),
                          LAMBDA c : \A j \in DOMAIN d :
                                        d[j].cols = NoCols \/ c \notin Range(d[j].cols))]]

\* the rows that dropna(how="all") keeps in every part of the value
valid_index(d, value) ==
    SelectSeq(Positions(NRows(value)),
              LAMBDA i : \A k \in DOMAIN d : \E c \in Range(d[k].cols) :
                            value.data[i][IndexOf(Labels(value), c)] # NA)

\* self.append(k, value.reindex(v, axis=axis), data_columns=dc): no dropna is
\* passed, append takes the io.hdf.dropna_table option
append_part(h, m, f, key, value, cols, data_columns, dropna_table) ==
    HDFStore_append(h, m, f, key, reindex(value, cols), "table", NoMin, data_columns,
                    NoInt, dropna_table)

RECURSIVE append_each(_, _, _, _, _, _, _, _)
RECURSIVE append_next(_, _, _, _, _, _, _, _)

\* the loop over d once the append to the entry before i has ended with out:
\* an exception ends the loop
append_next(h, m, d, value, selector, dropna_table, i, out) ==
    IF out.err # "none" THEN out
    ELSE append_each(h, m, out.file, d, value, selector, dropna_table, i)

\* the loop over d from entry i on: the selector table gets its columns as
\* data columns
append_each(h, m, f, d, value, selector, dropna_table, i) ==
    IF i > Len(d) THEN Outcome(f, "none", NoObj, NoInt)
    ELSE append_next(h, m, d, value, selector, dropna_table, i + 1,
             append_part(h, m, f, d[i].key, value, d[i].cols,
                         IF d[i].key = selector THEN d[i].cols ELSE NoCols,
                         dropna_table))

\* append_to_multiple with data_columns=None; d is the dict in the order of
\* its items
HDFStore_append_to_multiple(h, m, f, d, value, selector, dropna, dropna_table) ==
    IF \A i \in DOMAIN d : d[i].key # selector
    THEN Outcome(f, "ValueError", NoObj, NoInt)
    ELSE append_each(h, m, f, split_columns(d, value),
                     IF dropna
                     THEN TakeRows(value, valid_index(split_columns(d, value), value))
                     ELSE value,
                     selector, dropna_table, 1)

\* Table.nrows: None for a group without a table
Table_nrows(node) == IF node.kind = "table" THEN Len(node.rows) ELSE NoInt

RECURSIVE validate_rows(_, _, _, _)
\* select_as_multiple, the loop that validates the rows of the selector and
\* of the tables in turn
validate_rows(f, chain, i, nrows) ==
    IF i > Len(chain) THEN "none"
    ELSE IF ~(f[chain[i]].kind = "table"
              \/ (f[chain[i]].kind = "group" /\ IsTableType(f[chain[i]].pandas_type)))
    THEN "TypeError"
    ELSE IF nrows = NoInt THEN validate_rows(f, chain, i + 1, Table_nrows(f[chain[i]]))
    ELSE IF Table_nrows(f[chain[i]]) # nrows THEN "ValueError"
    ELSE validate_rows(f, chain, i + 1, nrows)

\* select_as_multiple up to the end of the validation: get_storer for every
\* key and for the selector, then the rows
select_as_multiple_validate(h, f, keys, selector) ==
    IF h # "open" THEN "ClosedFileError"
    ELSE IF \E i \in DOMAIN keys : f[keys[i]] = NoNode THEN "KeyError"
    ELSE IF \E i \in DOMAIN keys :
                f[keys[i]].kind = "group" /\ f[keys[i]].pandas_type = NoAttr
    THEN "TypeError"
    ELSE validate_rows(f, <<selector>> \o keys, 1, NoInt)

\* the keys of d in the order of its items
DictKeys(d) == [i \in DOMAIN d |-> d[i].key]

\* with pandas.option_context("io.hdf.dropna_table", dropna_table):
\*     store.append_to_multiple(d, value, selector, dropna=dropna)
AppendToMultipleOp(d, value, selector, dropna, dropna_table) ==
    \E out \in {HDFStore_append_to_multiple(handle, mode, file, d, value, selector,
                                           dropna, dropna_table)} :
        /\ \A i \in DOMAIN d : Len(hist[d[i].key]) < MaxAppends
        /\ file' = out.file
        /\ last' = file
        /\ hist' = [k \in DOMAIN hist |->
                       IF out.file[k] # file[k] /\ out.file[k].kind = "table"
                       THEN Append(hist[k], Written(value, out.file[k]))
                       ELSE hist[k]]
        /\ result' = [Call("append_to_multiple", selector, value, "table", NoWhere,
                           NoInt, NoInt, NoMin, out.err, NoObj, NoInt)
                         EXCEPT !.ks = Range(DictKeys(d)),
                                !.kw.dropna = dropna,
                                !.kw.dropna_table = dropna_table]
        /\ UNCHANGED <<handle, mode>>
        /\ UNCHANGED <<it, own>>

\* a two-row frame with the float column A and the string column s
MultiFrame(r1, r2) ==
    MkFrame(NoName, <<0, 1>>, <<Col("A", "float64", <<>>), Col("s", "object", <<>>)>>,
            <<r1, r2>>)

MultiBatches ==
    {MultiFrame(<<5, ShortLen>>, <<NA, ShortLen>>), MultiFrame(<<5, LongLen>>, <<5, NA>>)}
    \cup {FloatsFrame(<<5, 2>>, <<NA, c>>) : c \in {NA, 2}}

\* {'df': ['A'], 'b': None}: the table b gets the remaining columns
MultiDict == <<[key |-> "df", cols |-> <<"A">>], [key |-> "b", cols |-> NoCols]>>

NextMultiple ==
    \/ \E v \in MultiBatches, d \in BOOLEAN, o \in BOOLEAN :
          AppendToMultipleOp(MultiDict, v, "df", d, o)
    \/ \E k \in TwoKeys : SelectOp(k, NoWhere, NoInt, NoInt)

SpecMultiple == InitTwo /\ [][NextMultiple]_vars

\* the rows of the table under a key, none when there is no table
RowsUnder(f, key) == IF f[key].kind = "table" THEN Len(f[key].rows) ELSE 0

\* the tables named hold the same number of rows
Synchronized(f, ks) == \A k1 \in ks, k2 \in ks : RowsUnder(f, k1) = RowsUnder(f, k2)

\* C29: when all tables named in d hold the same number of rows before
\* append_to_multiple, they hold the same number of rows after it, whether
\* the call returns or raises and whatever dropna and io.hdf.dropna_table
\* are, and select_as_multiple over them does not fail its equal-nrows check.
C29_RowsStaySynchronized ==
    [][(result'.op = "append_to_multiple" /\ Synchronized(file, result'.ks))
          => /\ Synchronized(file', result'.ks)
             /\ select_as_multiple_validate(handle', file', <<"df", "b">>, result'.key)
                   # "ValueError"]_vars

\* ------------------------------------- appends while a chunked select is read
\* a one-row batch for the table of DelFrame
TailFrame(i) == MkFrame(NoName, <<i>>, <<Col("A", "int64", <<>>)>>, <<<<10 + i>>>>)

TailIndexes == {MaxDelRows + 2, MaxDelRows + 3}

TailFrames == {TailFrame(i) : i \in TailIndexes}

TailWheres == {NoWhere, Coords(<<5>>), Term("index", ">=", 3)}

\* the table is written once, then appended to and read in chunks
NextTail ==
    \/ \E k \in Keys : file[k] = NoNode
                       /\ PutOp(k, DelFrame, "table", NoMin, AllCols, NoInt, FALSE)
    \/ \E k \in Keys, v \in TailFrames :
          AppendOp(k, v, "table", NoMin, AllCols, NoInt, FALSE)
    \/ \E k \in Keys, w \in TailWheres, a \in IterStarts, b \in IterStops :
          SelectKwOp(k, w, a, b, NoCols, FALSE, MaxChunk)
    \/ IterNextOp

SpecTail == Init /\ [][NextTail]_vars

\* the row at coordinate c of the table satisfies the where of the select
MatchesAt(node, where, c) ==
    CASE where.kind = "coords" -> c \in Range(where.coords)
      [] where.kind = "term" -> node.rows[c + 1].index >= where.v
      [] OTHER -> TRUE

\* the index values of the rows the iterator yields from now on
YieldedIndex(t, f) ==
    LET batches == IterBatches(t, handle, f, MaxDelRows + MaxAppends + 2)
    IN  Flatten([i \in DOMAIN batches |-> batches[i].idx])

\* the rows of the table can be told apart by their index values
UniqueIndex(node) ==
    \A i \in DOMAIN node.rows, j \in DOMAIN node.rows :
        node.rows[i].index = node.rows[j].index => i = j

\* C30: an append to the table between two steps of a chunked select changes
\* nothing in what the iterator yields from then on, and the iterator a
\* select returns yields exactly once every row that is in [start, stop) and
\* satisfies the where when select is called.
C30_IteratorSnapshot ==
    [][/\ (result'.op = "append" /\ it.state = "active" /\ it.key = result'.key)
             => YieldedIndex(it, file') = YieldedIndex(it, file)
       /\ (FreshIterator /\ UniqueIndex(file[it.key]))
             => \A c \in 0..(Len(file[it.key].rows) - 1) :
                   (c >= it.start /\ c < it.stop /\ MatchesAt(file[it.key], it.where, c))
                      => Count(YieldedIndex(it, file), file[it.key].rows[c + 1].index) = 1
      ]_vars

====
